---- MODULE Spec2Model ----
(***************************************************************************)
(* State-machine model of the TAR24 / C4ISR flight-tracking core:          *)
(*   - FlightTracker            (src/js/flight-tracker.js)                 *)
(*   - DataSourceManager  v2    (src/js/data-sources-v2.js)                *)
(*   - DataSourceManager  v1    (src/unnamed/part_003)                     *)
(*   - ThreatDetectionSystem v2 (src/js/threat-detection-v2.js)            *)
(*   - ThreatDetectionSystem v1 / AIThreatAnalyzer (src/unnamed/part_005)  *)
(* The v2 manager is modelled a second time with two sources, its timers  *)
(* and the awaits of processQueue as steps of the event loop.              *)
(* Every component has its own variables, initial predicate and            *)
(* next-state relation; one specification per component leaves the other   *)
(* components' variables unchanged.                                        *)
(* Times are milliseconds, latitudes/longitudes are millidegrees,          *)
(* confidences and v1 scores are thousandths.                              *)
(***************************************************************************)
EXTENDS Integers, Sequences, FiniteSets, TLC

VARIABLES
    \* ---- FlightTracker ----
    flights,          \* this.flights        : id -> flight object
    flightHistory,    \* this.flightHistory  : id -> array of positions
    threatFlights,    \* this.threatFlights  : set of ids
    isTracking,       \* this.isTracking
    now,              \* wall clock (Date.now()), ms
    addCount,         \* number of addFlight calls so far (bounds the runs)
    seenIds,          \* history variable: truthy ids handed to addFlight
    evicted,          \* history variable: some removeFlight has happened
    contributors,     \* history variable: id -> sources that reported it
    trLast,           \* history variable: the last FlightTracker operation
    \* ---- DataSourceManager v2 ----
    isRunning,        \* this.isRunning
    activeSources,    \* this.activeSources : set of source names
    sources,          \* this.sources : name -> [isActive, lastData,
                      \*                          errorCount, retryAttempts]
    connectionStatus, \* this.connectionStatus : name -> status string
    inflight,         \* name -> requests of the handler awaiting an answer
    retryTimers,      \* name -> delays of the pending retrySource timers
    restartTimers,    \* name -> number of pending startSource timers
    consecutive,      \* history variable: name -> failed polls in a row
    dsLast,           \* history variable: the last manager operation
    processingQueue,  \* this.processingQueue : array of queued items
    isProcessing,     \* this.isProcessing
    dataCache,        \* this.dataCache : source name -> cached data
    dataUpdated,      \* the dataUpdated events emitted by the last handler
    pqLast,           \* history variable: the last response handed over
    openSkyData,      \* the flights of the last parseOpenSkyData (v1)
    \* ---- DataSourceManager v1 ----
    sourcesV1,        \* this.sources : key -> [status, lastData, errorCount,
                      \*                        retryAttempts, connection]
    activeSourcesV1,  \* this.activeSources : set of source keys
    updateIntervals,  \* this.updateIntervals : keys with a poll interval
    requestCounters,  \* this.requestCounters : key -> stored counter
    requestsSent,     \* history variable: key -> fetches executed
    retryPolls,       \* key -> pending retry timers of updateSourceData
    v1Last,           \* history variable: the last v1 manager operation
    \* ---- ThreatDetectionSystem v2 ----
    threats,          \* this.threats : flight id -> analysis
    threatHistory,    \* this.threatHistory : array of emitted threats
    thNow,            \* wall clock of the threat system, ms since midnight
    thStart,          \* history variable: the clock at the start
    analysed,         \* number of analyzeFlight calls so far
    classified,       \* history variable: id -> latest classification
    snapshots,        \* history variable: id -> flight object last analysed
    aiScores,         \* history variable: id -> latest v1 analyzer answer
    thLast,           \* history variable: the last threat operation
    \* ---- scoring cycles on one flight ----
    lvCycles,         \* scoring cycles so far
    lvPrev,           \* what the cycle before the latest one stored
    lvCur,            \* what the latest cycle stored and emitted
    \* ---- DataSourceManager v2: lifecycle, timers and queue ----
    mgr,              \* the manager's maps, flags and pending timers
    pipe,             \* processingQueue, isProcessing, the processQueue
                      \* calls awaiting an item, cache, listeners, events
    \* ---- the periodic passes and the listeners ----
    trTimer,          \* FlightTracker: this.updateInterval is set, and the
                      \* number of its setInterval timers that are alive
    tds               \* ThreatDetectionSystem: isMonitoring, its interval,
                      \* the threatDetected listeners and their calls

varsTr == <<flights, flightHistory, threatFlights, isTracking, addCount,
            seenIds, evicted, contributors, trLast>>

varsDs == <<isRunning, activeSources, sources, connectionStatus, inflight,
            retryTimers, restartTimers, consecutive, dsLast>>

varsPq == <<processingQueue, isProcessing, dataCache, dataUpdated, pqLast,
            openSkyData>>

varsV1 == <<sourcesV1, activeSourcesV1, updateIntervals, requestCounters,
            requestsSent, retryPolls, v1Last>>

varsTh == <<threats, threatHistory, thNow, thStart, analysed, classified,
            snapshots, aiScores, thLast>>

varsLv == <<lvCycles, lvPrev, lvCur>>

varsMg == <<mgr, pipe>>

varsTm == <<trTimer, tds>>

vars == <<now, varsTr, varsDs, varsPq, varsV1, varsTh, varsLv, varsMg,
          varsTm>>

\* what the operations of one component leave alone
othersTr == <<varsDs, varsPq, varsV1, varsTh, varsLv, varsMg, varsTm>>

othersDs == <<varsTr, varsV1, varsTh, varsLv, varsMg, varsTm>>

othersV1 == <<varsTr, varsDs, varsPq, varsTh, varsLv, varsMg, varsTm>>

othersTh == <<varsTr, varsDs, varsPq, varsV1, varsLv, varsMg, varsTm>>

othersLv == <<varsTr, varsDs, varsPq, varsV1, varsTh, varsMg, varsTm>>

othersMg == <<varsTr, varsDs, varsPq, varsV1, varsTh, varsLv, varsTm>>

\* what startTracking, stopTracking and the tracker's shutdown leave alone
othersTrTimer == <<tds, varsDs, varsPq, varsV1, varsTh, varsLv, varsMg>>

\* what the calls on the threat system's timer and listeners leave alone
othersTds ==
    <<trTimer, varsTr, varsDs, varsPq, varsV1, varsTh, varsLv, varsMg>>

----------------------------------------------------------------------------
(*                         generic helpers                                 *)

Abs(x) == IF x < 0 THEN -x ELSE x

Max2(a, b) == IF a >= b THEN a ELSE b

Min2(a, b) == IF a <= b THEN a ELSE b

\* the function f without the key k (Map.delete)
MapDelete(f, k) == [x \in (DOMAIN f) \ {k} |-> f[x]]

\* the function f with key k set to v (Map.set)
MapSet(f, k, v) == [x \in (DOMAIN f) \cup {k} |-> IF x = k THEN v ELSE f[x]]

\* Array.prototype.shift: the array without its first element
Shift(s) == IF Len(s) = 0 THEN s ELSE Tail(s)

\* Array.prototype.slice(-n)
SliceLast(s, n) ==
    IF Len(s) <= n THEN s ELSE SubSeq(s, Len(s) - n + 1, Len(s))

\* String.prototype.includes on strings given as sequences of characters
Includes(s, sub) ==
    \E i \in 0..(Len(s) - Len(sub)) :
        \A j \in 1..Len(sub) : s[i + j] = sub[j]

----------------------------------------------------------------------------
(*        Normalizer of the v1 manager (src/unnamed/part_003)              *)
(* A callsign is a sequence of characters (<<>> when the record has        *)
(* none); a native identifier is a string ("" when the record has none);   *)
(* a missing number and 0 are the same to the parser (both are falsy, and  *)
(* parseInt(undefined) || 0 = 0), so a missing number is written 0.        *)

\* determineAircraftType: substring tests on the upper-cased callsign, in
\* the order military, uav, commercial, private (country is absent in the
\* FlightRadar24 and ADSB record shapes)
determineAircraftType(callsign) ==
    IF \/ Includes(callsign, <<"M","I","L">>)
       \/ Includes(callsign, <<"N","A","V","Y">>)
       \/ Includes(callsign, <<"A","I","R">>)
       \/ Includes(callsign, <<"A","R","M","Y">>)
       \/ Includes(callsign, <<"A","F">>)
       \/ Includes(callsign, <<"N">>)
    THEN "military"
    ELSE IF \/ Includes(callsign, <<"U","A","V">>)
            \/ Includes(callsign, <<"D","R","O","N","E">>)
            \/ Includes(callsign, <<"M","Q">>)
            \/ Includes(callsign, <<"R","Q">>)
            \/ Includes(callsign, <<"P","R","E","D","A","T","O","R">>)
            \/ Includes(callsign, <<"R","E","A","P","E","R">>)
    THEN "uav"
    ELSE IF \/ Includes(callsign, <<"A","A">>)
            \/ Includes(callsign, <<"U","A">>)
            \/ Includes(callsign, <<"D","L">>)
            \/ Includes(callsign, <<"B","A">>)
            \/ Includes(callsign, <<"L","H">>)
            \/ Includes(callsign, <<"A","F">>)
            \/ Includes(callsign, <<"E","K">>)
            \/ Includes(callsign, <<"Q","R">>)
            \/ Includes(callsign, <<"T","K">>)
    THEN "commercial"
    ELSE IF \/ Includes(callsign, <<"N">>)
            \/ Includes(callsign, <<"G">>)
            \/ Includes(callsign, <<"F">>)
            \/ Includes(callsign, <<"D">>)
            \/ Includes(callsign, <<"O","O">>)
            \/ Includes(callsign, <<"P","H">>)
    THEN "private"
    ELSE "unknown"

\* DataSourceManager.calculateThreatLevel of the v1 manager
dsmCalculateThreatLevel(callsign) ==
    LET type == determineAircraftType(callsign) IN
    IF type = "military" THEN "high"
    ELSE IF type = "uav" THEN "medium"
    ELSE IF type \in {"commercial", "private"} THEN "low"
    ELSE "medium"

\* the prefix of the generated identifier of each provider
IdPrefix(source) == IF source = "flightradar24" THEN "FR24_" ELSE "ADSB_"

\* One record of parseFlightRadar24Data / parseADSBData: the record is kept
\* only when lat and lon are both truthy; a record without native id gets
\* a generated one (prefix + Math.random() suffix rnd).  The result is a
\* sequence: <<>> for a dropped record, <<flightData>> otherwise.
parseFlight(raw, source, rnd) ==
    IF raw.lat # 0 /\ raw.lon # 0
    THEN << [ id          |-> IF raw.id # "" THEN raw.id
                              ELSE IdPrefix(source) \o rnd,
              callsign    |-> IF raw.callsign # <<>> THEN raw.callsign
                              ELSE <<"N","/","A">>,
              latitude    |-> raw.lat,
              longitude   |-> raw.lon,
              altitude    |-> raw.alt,
              speed       |-> raw.speed,
              heading     |-> raw.heading,
              type        |-> determineAircraftType(raw.callsign),
              source      |-> source,
              threatLevel |-> dsmCalculateThreatLevel(raw.callsign) ] >>
    ELSE << >>

\* determineAircraftType({callsign, country}): the country is tested with
\* the military callsign fragments, before every other rule
determineAircraftTypeOf(callsign, country) ==
    IF country \in {"US", "RU", "CN", "IR"} THEN "military"
    ELSE determineAircraftType(callsign)

\* calculateThreatLevel({callsign, country})
calculateThreatLevelOf(callsign, country) ==
    LET type == determineAircraftTypeOf(callsign, country) IN
    IF type = "military" THEN "high"
    ELSE IF type = "uav" THEN "medium"
    ELSE IF type \in {"commercial", "private"} THEN "low"
    ELSE "medium"

\* One state vector of parseOpenSkyData (state[0] icao24, state[1]
\* callsign, state[2] country, state[5] longitude, state[6] latitude,
\* state[7] altitude, state[9] velocity, state[10] heading): every vector
\* is pushed, a missing coordinate is stored as 0
parseOpenSkyState(state, rnd) ==
    [ id          |-> IF state.icao24 # "" THEN state.icao24
                      ELSE "OS_" \o rnd,
      callsign    |-> IF state.callsign # <<>> THEN state.callsign
                      ELSE <<"N","/","A">>,
      country     |-> IF state.country # "" THEN state.country
                      ELSE "Unknown",
      latitude    |-> state.lat,
      longitude   |-> state.lon,
      altitude    |-> state.alt,
      speed       |-> state.speed,
      heading     |-> state.heading,
      type        |-> determineAircraftTypeOf(state.callsign, state.country),
      source      |-> "opensky",
      threatLevel |-> calculateThreatLevelOf(state.callsign,
                                             state.country) ]

\* parseOpenSkyData(rawData).flights for the array rawData.states
parseOpenSkyData(states, rnd) ==
    [i \in 1..Len(states) |-> parseOpenSkyState(states[i], rnd)]

----------------------------------------------------------------------------
(*                 FlightTracker (src/js/flight-tracker.js)                *)

\* the staleness window of updateFlightData / updateFlightPositions, ms
StaleAfter == 300000

\* this.maxHistoryLength of the constructor
maxHistoryLength == 1000

\* restricted area of isInRestrictedArea: centre (Tehran) and radius in km
RestrictedLat == 35689
RestrictedLon == 51389
RestrictedRadiusKm == 50

\* calculateDistance(lat, lon, centre) <= radius.  The haversine distance is
\* evaluated in the local plane of the centre: one millidegree of latitude
\* is 111 m and one millidegree of longitude at 35.7 N is 90 m; lengths are
\* in units of 10 m.
isInRestrictedArea(lat, lon) ==
    LET dy == (Abs(lat - RestrictedLat) * 111) \div 10
        dx == (Abs(lon - RestrictedLon) * 90) \div 10
        r  == RestrictedRadiusKm * 100
    IN  /\ dy <= r
        /\ dx <= r
        /\ dy * dy + dx * dx <= r * r

\* the position object addToHistory builds
Position(fd, t) ==
    [ latitude  |-> fd.latitude,  longitude |-> fd.longitude,
      altitude  |-> fd.altitude,  speed     |-> fd.speed,
      heading   |-> fd.heading,   timestamp |-> t ]

\* addToHistory that trims as soon as the cap is reached
addToHistoryTrimAtCap(history, fd, t) ==
    LET pushed == Append(history, Position(fd, t)) IN
    IF Len(pushed) >= maxHistoryLength THEN Shift(pushed) ELSE pushed

\* addToHistory on one history array: push, then shift once when the
\* array is longer than maxHistoryLength
addToHistory(history, fd, t) ==
    LET pushed == Append(history, Position(fd, t)) IN
    IF Len(pushed) > maxHistoryLength THEN Shift(pushed) ELSE pushed

\* the flight object addFlight stores for a new id
NewFlight(fd, t) ==
    [ id |-> fd.id, callsign |-> fd.callsign, latitude |-> fd.latitude,
      longitude |-> fd.longitude, altitude |-> fd.altitude,
      speed |-> fd.speed, heading |-> fd.heading, type |-> fd.type,
      source |-> fd.source, threatLevel |-> fd.threatLevel,
      firstSeen |-> t, lastUpdate |-> t, positionHistory |-> << >> ]

\* an update that keeps the source that created the flight
AssignFlightKeepSource(flight, fd, t) ==
    [ flight EXCEPT !.id = fd.id, !.callsign = fd.callsign,
                    !.latitude = fd.latitude, !.longitude = fd.longitude,
                    !.altitude = fd.altitude, !.speed = fd.speed,
                    !.heading = fd.heading, !.type = fd.type,
                    !.threatLevel = fd.threatLevel, !.lastUpdate = t ]

\* Object.assign(flight, newData); flight.lastUpdate = new Date()
AssignFlight(flight, fd, t) ==
    [ flight EXCEPT !.id = fd.id, !.callsign = fd.callsign,
                    !.latitude = fd.latitude, !.longitude = fd.longitude,
                    !.altitude = fd.altitude, !.speed = fd.speed,
                    !.heading = fd.heading, !.type = fd.type,
                    !.source = fd.source, !.threatLevel = fd.threatLevel,
                    !.lastUpdate = t ]

\* a removeFlight that leaves the id in threatFlights
removeFlightKeepsThreat(st, id) ==
    << MapDelete(st[1], id), MapDelete(st[2], id), st[3] >>

\* removeFlight on the three collections <<flights, history, threats>>
removeFlight(st, id) ==
    << MapDelete(st[1], id), MapDelete(st[2], id), st[3] \ {id} >>

\* updateFlightData that measures the age against the previous stamp
updateFlightDataOldStamp(st, id, fd, t, t2) ==
    IF id \notin DOMAIN st[1] THEN st
    ELSE LET upd == << MapSet(st[1], id, AssignFlight(st[1][id], fd, t)),
                       st[2], st[3] >>
         IN  IF t2 - st[1][id].lastUpdate > StaleAfter
             THEN removeFlight(upd, id) ELSE upd

\* updateFlightData: assign, stamp, and remove the flight when the stamp
\* just written is older than the staleness window (t2 is the clock read
\* by Date.now() after the stamp t was taken)
updateFlightData(st, id, fd, t, t2) ==
    IF id \notin DOMAIN st[1] THEN st
    ELSE LET upd == << MapSet(st[1], id, AssignFlight(st[1][id], fd, t)),
                       st[2], st[3] >>
         IN  IF t2 - t > StaleAfter THEN removeFlight(upd, id) ELSE upd

\* an addFlight that correlates by position: a flight with an unknown id
\* is merged into a tracked flight within 50 millidegrees of it
NearIds(fl, fd) ==
    { id \in DOMAIN fl : /\ Abs(fl[id].latitude - fd.latitude) <= 50
                         /\ Abs(fl[id].longitude - fd.longitude) <= 50 }

addFlightCorrelating(st, fd, t) ==
    IF fd.id = "" THEN st
    ELSE LET key == IF fd.id \notin DOMAIN st[1] /\ NearIds(st[1], fd) # {}
                    THEN CHOOSE id \in NearIds(st[1], fd) : TRUE
                    ELSE fd.id
             fk  == [fd EXCEPT !.id = key]
             st1 == IF key \in DOMAIN st[1]
                    THEN updateFlightData(st, key, fk, t, t)
                    ELSE << MapSet(st[1], key, NewFlight(fk, t)),
                            MapSet(st[2], key, << >>), st[3] >>
         IN  IF key \in DOMAIN st1[2]
             THEN << st1[1],
                     MapSet(st1[2], key, addToHistory(st1[2][key], fk, t)),
                     st1[3] >>
             ELSE st1

\* addFlight on <<flights, history, threats>>
addFlight(st, fd, t) ==
    IF fd.id = "" THEN st
    ELSE LET st1 == IF fd.id \in DOMAIN st[1]
                    THEN updateFlightData(st, fd.id, fd, t, t)
                    ELSE << MapSet(st[1], fd.id, NewFlight(fd, t)),
                            MapSet(st[2], fd.id, << >>), st[3] >>
         IN  \* addToHistory returns early when the id has no history
             IF fd.id \in DOMAIN st1[2]
             THEN << st1[1],
                     MapSet(st1[2], fd.id, addToHistory(st1[2][fd.id], fd, t)),
                     st1[3] >>
             ELSE st1

\* a sweep that takes a flight for stale from the full window on
StaleIdsFromWindow(fl, t) ==
    { id \in DOMAIN fl : t - fl[id].lastUpdate >= StaleAfter }

\* updateFlightPositions: remove every flight not updated for more than
\* the staleness window
StaleIds(fl, t) == { id \in DOMAIN fl : t - fl[id].lastUpdate > StaleAfter }

\* a sweep that forgets the histories and the threat set
updateFlightPositionsFlightsOnly(st, t) ==
    LET stale == StaleIds(st[1], t) IN
    << [id \in (DOMAIN st[1]) \ stale |-> st[1][id]], st[2], st[3] >>

updateFlightPositions(st, t) ==
    LET stale == StaleIds(st[1], t) IN
    << [id \in (DOMAIN st[1]) \ stale |-> st[1][id]],
       [id \in (DOMAIN st[2]) \ stale |-> st[2][id]],
       st[3] \ stale >>

\* largest |a[i] - a[i-1]| of a sequence of numbers (0 for the first)
MaxStep(a) ==
    IF Len(a) < 2 THEN 0
    ELSE LET d == { Abs(a[i] - a[i-1]) : i \in 2..Len(a) }
         IN  CHOOSE m \in d : \A x \in d : x <= m

\* detectSuspiciousPatterns: the set of pattern names
detectSuspiciousPatterns(history) ==
    LET r3 == SliceLast(history, 3)
        r5 == SliceLast(history, 5)
    IN  (IF Len(history) >= 3
            /\ MaxStep([i \in 1..Len(r3) |-> r3[i].altitude]) > 5000
         THEN {"rapid_altitude_change"} ELSE {})
        \cup
        (IF Len(history) >= 5
            /\ MaxStep([i \in 1..Len(r5) |-> r5[i].heading]) > 45
         THEN {"erratic_heading"} ELSE {})
        \cup
        (IF Len(history) >= 3
            /\ r3[1].speed + r3[2].speed + r3[3].speed > 800 * 3
         THEN {"unusual_speed"} ELSE {})

\* getFlightHistory(id): the history, or [] when there is none
getFlightHistory(hist, id) == IF id \in DOMAIN hist THEN hist[id] ELSE << >>

\* analyzeFlightPatterns: flights with a history of 3 or more entries and
\* a suspicious pattern join threatFlights
analyzeFlightPatterns(st) ==
    << st[1], st[2],
       st[3] \cup { id \in DOMAIN st[1] :
                      /\ Len(getFlightHistory(st[2], id)) >= 3
                      /\ detectSuspiciousPatterns(getFlightHistory(st[2], id))
                            # {} } >>

\* detectThreats: high/critical flights and military flights inside the
\* restricted area join threatFlights
detectThreats(st) ==
    << st[1], st[2],
       st[3] \cup { id \in DOMAIN st[1] :
                      \/ st[1][id].threatLevel \in {"high", "critical"}
                      \/ /\ st[1][id].type = "military"
                         /\ isInRestrictedArea(st[1][id].latitude,
                                               st[1][id].longitude) } >>

\* getFlights(): the tracked flights
getFlights == { flights[id] : id \in DOMAIN flights }

----------------------------------------------------------------------------
(*                    FlightTracker: inputs and bounds                     *)

\* number of addFlight calls in a run of the tracker specification
MaxAdds == 3

\* number of clock steps in a run of the tracker specification
MaxTicks == 2

\* one clock step: the staleness window
TickStep == StaleAfter

\* the provider records fed to the normalizer
RawMilitary ==
    [ id |-> "ABC123", callsign |-> <<"M","I","L","1">>,
      lat |-> 35000, lon |-> 51000, alt |-> 25000, speed |-> 450,
      heading |-> 180 ]

RawNoId ==
    [ id |-> "", callsign |-> << >>,
      lat |-> 35001, lon |-> 51001, alt |-> 25000, speed |-> 450,
      heading |-> 180 ]

RawAirliner ==
    [ id |-> "DEF456", callsign |-> <<"E","K","1">>,
      lat |-> 35689, lon |-> 51389, alt |-> 35000, speed |-> 900,
      heading |-> 90 ]

RawNoPosition ==
    [ id |-> "GHI789", callsign |-> <<"G","1">>,
      lat |-> 0, lon |-> 51000, alt |-> 1200, speed |-> 90,
      heading |-> 270 ]

\* which provider reports which record
Reports ==
    { <<RawMilitary, "flightradar24">>, <<RawMilitary, "adsb">>,
      <<RawNoId, "adsb">>, <<RawAirliner, "flightradar24">>,
      <<RawNoPosition, "flightradar24">> }

\* the values Math.random() contributes to a generated identifier
RandomSuffixes == {"k3x9", "q7m2"}

\* a flightData object handed to addFlight without an id
NoIdFlight ==
    [ id |-> "", callsign |-> <<"N","/","A">>, latitude |-> 35001,
      longitude |-> 51001, altitude |-> 25000, speed |-> 450,
      heading |-> 180, type |-> "unknown", source |-> "adsb",
      threatLevel |-> "medium" ]

\* everything addFlight is called with: the normalizer's output for every
\* record, provider and random suffix, and the object without id
FlightInputs ==
    { parseFlight(x[1][1], x[1][2], x[2])[1] :
        x \in { y \in Reports \X RandomSuffixes :
                  parseFlight(y[1][1], y[1][2], y[2]) # << >> } }
    \cup {NoIdFlight}

----------------------------------------------------------------------------
(*                        FlightTracker: actions                           *)

InitTr ==
    /\ flights = << >>
    /\ flightHistory = << >>
    /\ threatFlights = {}
    /\ isTracking = FALSE
    /\ now = 0
    /\ addCount = 0
    /\ seenIds = {}
    /\ evicted = FALSE
    /\ contributors = << >>
    /\ trLast = [op |-> "init", fd |-> NoIdFlight, removed |-> {}]
    /\ trTimer = [handle |-> FALSE, intervals |-> 0]

\* the clock advances; the tick is nobody's operation
Tick ==
    /\ now + TickStep <= MaxTicks * TickStep
    /\ now' = now + TickStep
    /\ trLast' = [op |-> "tick", fd |-> NoIdFlight, removed |-> {}]
    /\ dsLast' = [op |-> "tick", src |-> ""]
    /\ v1Last' = [op |-> "tick", src |-> ""]
    /\ UNCHANGED <<flights, flightHistory, threatFlights, isTracking,
                   addCount, seenIds, evicted, contributors>>
    /\ UNCHANGED <<isRunning, activeSources, sources, connectionStatus,
                   inflight, retryTimers, restartTimers, consecutive>>
    /\ UNCHANGED <<sourcesV1, activeSourcesV1, updateIntervals,
                   requestCounters, requestsSent, retryPolls>>
    /\ UNCHANGED <<varsPq, varsTh, varsLv, varsMg, varsTm>>

\* setInterval: one more timer is alive and its handle is stored
setIntervalOn(tm) ==
    [tm EXCEPT !.handle = TRUE, !.intervals = @ + 1]

\* if (handle) { clearInterval(handle); handle = null }
clearIntervalOn(tm) ==
    IF tm.handle
    THEN [tm EXCEPT !.handle = FALSE, !.intervals = @ - 1]
    ELSE tm

\* a startTracking() without the test of isTracking
startTrackingUnchecked ==
    /\ isTracking' = TRUE
    /\ trTimer' = setIntervalOn(trTimer)
    /\ trLast' = [op |-> "startTracking", fd |-> NoIdFlight, removed |-> {}]
    /\ UNCHANGED <<flights, flightHistory, threatFlights, now, addCount,
                   seenIds, evicted, contributors>>
    /\ UNCHANGED othersTrTimer

\* startTracking(): nothing when tracking already (the history variable
\* tells such a call apart), otherwise the flag and the 2 s interval
startTracking ==
    /\ isTracking' = TRUE
    /\ trTimer' = IF isTracking THEN trTimer ELSE setIntervalOn(trTimer)
    /\ trLast' = [op |-> IF isTracking THEN "startTracking again"
                         ELSE "startTracking",
                  fd |-> NoIdFlight, removed |-> {}]
    /\ UNCHANGED <<flights, flightHistory, threatFlights, now, addCount,
                   seenIds, evicted, contributors>>
    /\ UNCHANGED othersTrTimer

\* stopTracking(): nothing when not tracking, otherwise the flag is
\* cleared and the interval whose handle is stored is cleared
stopTracking ==
    /\ isTracking' = FALSE
    /\ trTimer' = IF isTracking THEN clearIntervalOn(trTimer) ELSE trTimer
    /\ trLast' = [op |-> IF isTracking THEN "stopTracking"
                         ELSE "stopTracking again",
                  fd |-> NoIdFlight, removed |-> {}]
    /\ UNCHANGED <<flights, flightHistory, threatFlights, now, addCount,
                   seenIds, evicted, contributors>>
    /\ UNCHANGED othersTrTimer

\* the sources recorded so far for an id
ContribOf(id) == IF id \in DOMAIN contributors THEN contributors[id] ELSE {}

\* FlightTracker.addFlight(fd)
AddFlight(fd) ==
    LET st == addFlight(<<flights, flightHistory, threatFlights>>, fd, now)
    IN  /\ flights' = st[1]
        /\ flightHistory' = st[2]
        /\ threatFlights' = st[3]
        /\ addCount' = addCount + 1
        /\ seenIds' = IF fd.id = "" THEN seenIds ELSE seenIds \cup {fd.id}
        /\ contributors' =
             [ id \in DOMAIN st[1] |->
                 IF id = fd.id
                 THEN (IF id \in DOMAIN flights THEN ContribOf(id) ELSE {})
                      \cup {fd.source}
                 ELSE ContribOf(id) ]
        /\ trLast' = [op |-> "addFlight", fd |-> fd,
                      removed |-> (DOMAIN flights) \ (DOMAIN st[1])]
        /\ UNCHANGED <<isTracking, now, evicted>>

AddFlightStep ==
    /\ addCount < MaxAdds
    /\ \E fd \in FlightInputs : AddFlight(fd)
    /\ UNCHANGED othersTr

\* the 2 s interval of startTracking: updateFlightPositions, then
\* analyzeFlightPatterns, then detectThreats
TrackingInterval ==
    /\ trTimer.intervals > 0
    /\ LET st == detectThreats(analyzeFlightPatterns(
                   updateFlightPositions(
                     <<flights, flightHistory, threatFlights>>, now)))
       IN  /\ flights' = st[1]
           /\ flightHistory' = st[2]
           /\ threatFlights' = st[3]
           /\ evicted' = (evicted \/ StaleIds(flights, now) # {})
           /\ contributors' = [id \in DOMAIN st[1] |-> ContribOf(id)]
    /\ trLast' = [op |-> "interval", fd |-> NoIdFlight,
                  removed |-> StaleIds(flights, now)]
    /\ UNCHANGED <<isTracking, now, addCount, seenIds>>
    /\ UNCHANGED othersTr

\* FlightTracker.removeFlight(id): Map.delete / Set.delete for any id
RemoveFlight ==
    /\ \E id \in DOMAIN flights :
         LET st == removeFlight(<<flights, flightHistory, threatFlights>>, id)
         IN  /\ flights' = st[1]
             /\ flightHistory' = st[2]
             /\ threatFlights' = st[3]
             /\ contributors' = [x \in DOMAIN st[1] |-> ContribOf(x)]
             /\ trLast' = [op |-> "removeFlight", fd |-> NoIdFlight,
                           removed |-> {id}]
    /\ evicted' = TRUE
    /\ UNCHANGED <<isTracking, now, addCount, seenIds>>
    /\ UNCHANGED othersTr

NextTr ==
    \/ Tick
    \/ startTracking
    \/ stopTracking
    \/ AddFlightStep
    \/ TrackingInterval
    \/ RemoveFlight

\* FlightTracker.shutdown(): stopTracking(), then the three collections
\* are cleared; the tracker takes calls as before
ShutdownTracker ==
    /\ isTracking' = FALSE
    /\ trTimer' = IF isTracking THEN clearIntervalOn(trTimer) ELSE trTimer
    /\ flights' = << >>
    /\ flightHistory' = << >>
    /\ threatFlights' = {}
    /\ contributors' = << >>
    /\ evicted' = (evicted \/ DOMAIN flights # {})
    /\ trLast' = [op |-> "shutdown", fd |-> NoIdFlight,
                  removed |-> DOMAIN flights]
    /\ UNCHANGED <<now, addCount, seenIds>>
    /\ UNCHANGED othersTrTimer

\* the tracker with shutdown among its calls
NextTk ==
    \/ Tick
    \/ startTracking
    \/ stopTracking
    \/ AddFlightStep
    \/ TrackingInterval
    \/ RemoveFlight
    \/ ShutdownTracker

\* a record arrives one millisecond after the previous one: the clock
\* advances and addFlight is called with the same aircraft (the long runs
\* that fill one history array)
HistFlight ==
    parseFlight(RawAirliner, "flightradar24", "k3x9")[1]

HistExtra == 3

MaxHistAdds == maxHistoryLength + HistExtra

TimedAddFlight ==
    /\ addCount < MaxHistAdds
    /\ LET t  == now + 1
           st == addFlight(<<flights, flightHistory, threatFlights>>,
                           HistFlight, t)
       IN  /\ now' = t
           /\ flights' = st[1]
           /\ flightHistory' = st[2]
           /\ threatFlights' = st[3]
           /\ contributors' =
                [id \in DOMAIN st[1] |-> {HistFlight.source}]
    /\ addCount' = addCount + 1
    /\ seenIds' = seenIds \cup {HistFlight.id}
    /\ trLast' = [op |-> "addFlight", fd |-> HistFlight, removed |-> {}]
    /\ UNCHANGED <<isTracking, evicted>>
    /\ UNCHANGED othersTr

NextHist == TimedAddFlight

\* ---- a caller that writes to what a read returned ----------------------
\* getFlightById returns the stored object and getFlights a new array of
\* the stored objects; getFlightHistory returns the stored array, or a new
\* empty array for an id without history.  A write of the caller to a
\* returned object or array is a write to whatever that reference is.

\* the ids a caller asks for
AskedIds == seenIds \cup {"ZZZ999"}

\* the operations of a caller on what it read
CallerOps ==
    {"writeFlightById", "writeFlightsElement", "writeFlightsArray",
     "writeHistory"}

\* tracker.getFlightById(id).altitude = 0
CallerWritesFlightById ==
    \E id \in AskedIds :
      /\ id \in DOMAIN flights
      /\ flights' = [flights EXCEPT ![id].altitude = 0]
      /\ trLast' = [op |-> "writeFlightById", fd |-> NoIdFlight,
                    removed |-> {}]
      /\ UNCHANGED <<flightHistory, threatFlights, isTracking, now,
                     addCount, seenIds, evicted, contributors>>
      /\ UNCHANGED othersTr

\* tracker.getFlights()[i].threatLevel = 'low'
CallerWritesFlightsElement ==
    \E id \in DOMAIN flights :
      /\ flights' = [flights EXCEPT ![id].threatLevel = "low"]
      /\ trLast' = [op |-> "writeFlightsElement", fd |-> NoIdFlight,
                    removed |-> {}]
      /\ UNCHANGED <<flightHistory, threatFlights, isTracking, now,
                     addCount, seenIds, evicted, contributors>>
      /\ UNCHANGED othersTr

\* tracker.getFlights().length = 0: the array is the caller's own
CallerWritesFlightsArray ==
    /\ trLast' = [op |-> "writeFlightsArray", fd |-> NoIdFlight,
                  removed |-> {}]
    /\ UNCHANGED <<flights, flightHistory, threatFlights, isTracking, now,
                   addCount, seenIds, evicted, contributors>>
    /\ UNCHANGED othersTr

\* tracker.getFlightHistory(id).length = 0
CallerWritesHistory ==
    \E id \in AskedIds :
      /\ flightHistory' = IF id \in DOMAIN flightHistory
                          THEN [flightHistory EXCEPT ![id] = << >>]
                          ELSE flightHistory
      /\ trLast' = [op |-> "writeHistory", fd |-> NoIdFlight,
                    removed |-> {}]
      /\ UNCHANGED <<flights, threatFlights, isTracking, now, addCount,
                     seenIds, evicted, contributors>>
      /\ UNCHANGED othersTr

\* reports arrive and a caller writes to what it read
NextSnap ==
    \/ AddFlightStep
    \/ CallerWritesFlightById
    \/ CallerWritesFlightsElement
    \/ CallerWritesFlightsArray
    \/ CallerWritesHistory

----------------------------------------------------------------------------
(*            DataSourceManager v2 (src/js/data-sources-v2.js)             *)

\* the manager's sources; initializeDataSources registers four of them
\* (FlightRadar24, OpenSky, ADSB, KiwiSDR), all handled alike, and no
\* method touches one source's record or timers on behalf of another
SourceNames == {"FlightRadar24"}

\* handleSourceError: retries are scheduled while retryAttempts < 3
RetryLimit == 3

\* handleSourceError: the retry delay is 5000 * retryAttempts
RetryBaseDelay == 5000

\* retrySource: the source is started again after 1000 ms
RestartDelay == 1000

\* monitorConnections: data older than two minutes is stale
StaleDataAfter == 120000

\* requests of one handler that may be awaiting their answer at once
MaxInflight == 1

\* failed polls of one source in one run
MaxErrors == 4

\* the mutable state the manager's methods work on.  The handlers'
\* intervals are not kept between the steps of this manager: intervals
\* (the live setInterval timers of a handler) and handle (this.interval
\* is set) are read off isActive; the manager with several sources below
\* keeps them.
DsState ==
    [ sources          |-> sources,
      connectionStatus |-> connectionStatus,
      inflight         |-> inflight,
      retryTimers      |-> retryTimers,
      restartTimers    |-> restartTimers,
      intervals        |-> [s \in SourceNames |->
                              IF sources[s].isActive THEN 1 ELSE 0],
      handle           |-> [s \in SourceNames |-> sources[s].isActive] ]

\* updateConnectionStatus(sourceName, status)
updateConnectionStatus(d, s, status) ==
    [d EXCEPT !.connectionStatus[s] = status]

\* handler.start(): isRunning, one fetchData() at once, then a new
\* interval whose handle is stored in this.interval
handlerStart(d, s) ==
    [d EXCEPT !.inflight[s] = @ + 1,
              !.intervals[s] = @ + 1,
              !.handle[s] = TRUE]

\* a handler.stop() that forgets the handle and leaves the timer running
handlerStopKeepsTimer(d, s) == [d EXCEPT !.handle[s] = FALSE]

\* handler.stop(): the interval whose handle is stored is cleared
handlerStop(d, s) ==
    IF d.handle[s]
    THEN [d EXCEPT !.intervals[s] = @ - 1, !.handle[s] = FALSE]
    ELSE d

\* startSource(sourceName)
startSource(d, s) ==
    IF d.sources[s].isActive THEN d
    ELSE updateConnectionStatus(
           [handlerStart(d, s) EXCEPT !.sources[s].isActive = TRUE],
           s, "online")

\* stopSource(sourceName): handler.stop() clears the interval; the
\* requests already sent are still answered
stopSource(d, s) ==
    IF ~d.sources[s].isActive THEN d
    ELSE updateConnectionStatus(
           [handlerStop(d, s) EXCEPT !.sources[s].isActive = FALSE],
           s, "offline")

RECURSIVE startSources(_, _)
\* startDataCollection: startSource for every source of the set
startSources(d, S) ==
    IF S = {} THEN d
    ELSE LET s == CHOOSE x \in S : TRUE
         IN  startSources(startSource(d, s), S \ {s})

RECURSIVE stopSources(_, _)
\* stopDataCollection: stopSource for every source of the set
stopSources(d, S) ==
    IF S = {} THEN d
    ELSE LET s == CHOOSE x \in S : TRUE
         IN  stopSources(stopSource(d, s), S \ {s})

\* ---- the processing pipeline of the v2 manager -------------------------
\* A raw record of a provider: icao24 and squawk are strings ("" when the
\* record has none), callsign is a sequence of characters (<<>> when it
\* has none), the numbers are 0 when the record has none (0 and a missing
\* number are both falsy, and parseFloat/parseInt of either gives null
\* after || null), type is "" when the provider gives none.  null in a
\* transformed flight is written "" / <<>> / 0 in the same way.

\* the characters [A-Z] of the callsign patterns
UpperCase ==
    {"A","B","C","D","E","F","G","H","I","J","K","L","M","N","O","P","Q",
     "R","S","T","U","V","W","X","Y","Z"}

\* the characters \d of the callsign patterns
Digits == {"0","1","2","3","4","5","6","7","8","9"}

\* /^[A-Z]{k}\d{m}$/ for some k in kmin..kmax and m in mmin..mmax
LettersThenDigits(cs, kmin, kmax, mmin, mmax) ==
    \E k \in kmin..kmax, m \in mmin..mmax :
      /\ Len(cs) = k + m
      /\ \A i \in 1..k : cs[i] \in UpperCase
      /\ \A i \in (k + 1)..(k + m) : cs[i] \in Digits

\* militaryPatterns.some(pattern => pattern.test(callsign)):
\* /^[A-Z]{2,3}\d{3,4}$/, /^[A-Z]{2}\d{2}[A-Z]$/, /^[A-Z]{3}\d{2}$/
matchesMilitaryPatterns(cs) ==
    \/ LettersThenDigits(cs, 2, 3, 3, 4)
    \/ /\ Len(cs) = 5
       /\ cs[1] \in UpperCase /\ cs[2] \in UpperCase
       /\ cs[3] \in Digits /\ cs[4] \in Digits
       /\ cs[5] \in UpperCase
    \/ LettersThenDigits(cs, 3, 3, 2, 2)

\* commercialPatterns.some(...): /^[A-Z]{2,3}\d{3,4}$/, /^[A-Z]{3}\d{1,4}$/
matchesCommercialPatterns(cs) ==
    \/ LettersThenDigits(cs, 2, 3, 3, 4)
    \/ LettersThenDigits(cs, 3, 3, 1, 4)

\* a classifyAircraft without the altitude and speed envelope
classifyAircraftByCallsign(flight) ==
    IF flight.callsign # << >> /\ matchesMilitaryPatterns(flight.callsign)
    THEN "military"
    ELSE IF /\ flight.callsign # << >>
            /\ matchesCommercialPatterns(flight.callsign)
    THEN "commercial"
    ELSE "unknown"

\* classifyAircraft(flight)
classifyAircraft(flight) ==
    IF flight.callsign # << >> /\ matchesMilitaryPatterns(flight.callsign)
    THEN "military"
    ELSE IF /\ flight.callsign # << >>
            /\ matchesCommercialPatterns(flight.callsign)
    THEN "commercial"
    ELSE IF /\ flight.altitude # 0 /\ flight.altitude < 5000
            /\ flight.speed # 0 /\ flight.speed < 100
    THEN "uav"
    ELSE "unknown"

\* isMilitaryAircraft(flight)
isMilitaryAircraft(flight) ==
    \/ flight.callsign # << >> /\ matchesMilitaryPatterns(flight.callsign)
    \/ /\ flight.altitude # 0 /\ flight.speed # 0
       /\ flight.altitude > 30000 /\ flight.speed > 400
    \/ flight.squawk \in {"7500", "7600", "7700", "7777"}

\* a score in which military activity weighs 1
threatScoreOfLightMilitary(flight) ==
    (IF isMilitaryAircraft(flight) THEN 1 ELSE 0)
    + (IF flight.callsign = << >> /\ flight.icao24 = "" THEN 2 ELSE 0)
    + (IF flight.altitude # 0
          /\ (flight.altitude < 1000 \/ flight.altitude > 45000)
       THEN 1 ELSE 0)
    + (IF flight.speed # 0 /\ (flight.speed < 50 \/ flight.speed > 600)
       THEN 1 ELSE 0)

\* calculateThreatLevel(flight): the score summed from the indicators
threatScoreOf(flight) ==
    (IF isMilitaryAircraft(flight) THEN 3 ELSE 0)
    + (IF flight.callsign = << >> /\ flight.icao24 = "" THEN 2 ELSE 0)
    + (IF flight.altitude # 0
          /\ (flight.altitude < 1000 \/ flight.altitude > 45000)
       THEN 1 ELSE 0)
    + (IF flight.speed # 0 /\ (flight.speed < 50 \/ flight.speed > 600)
       THEN 1 ELSE 0)

\* calculateThreatLevel(flight): a level step that ignores the score 5
threatLevelOfScoreSkipping(threatScore) ==
    IF threatScore = 5 THEN "low"
    ELSE IF threatScore >= 3 THEN "high"
    ELSE IF threatScore >= 1 THEN "medium"
    ELSE "low"

\* calculateThreatLevel(flight): the level of the summed score
threatLevelOfScore(threatScore) ==
    IF threatScore >= 5 THEN "critical"
    ELSE IF threatScore >= 3 THEN "high"
    ELSE IF threatScore >= 1 THEN "medium"
    ELSE "low"

\* calculateThreatLevel(flight) of the v2 manager
calculateThreatLevelOfFlight(flight) ==
    threatLevelOfScore(threatScoreOf(flight))

\* the validation test of validateData on one record of data.flights
isValidRecord(flight) ==
    \/ flight.icao24 # ""
    \/ flight.callsign # << >>
    \/ (flight.lat # 0 /\ flight.lon # 0)

\* a validateData that rejects the whole response for one bad record
validateDataAllOrNothing(data) ==
    IF ~data.isObject THEN << >>
    ELSE IF \A i \in 1..Len(data.flights) : isValidRecord(data.flights[i])
    THEN << data.flights >>
    ELSE << >>

\* validateData(data): null for a response that is no object, otherwise
\* the records of data.flights that pass the test; the result is a
\* sequence holding the validated array, empty for null
validateData(data) ==
    IF ~data.isObject THEN << >>
    ELSE << SelectSeq(data.flights, isValidRecord) >>

\* transformFlight(flight, sourceName) at clock t
transformFlight(flight, sourceName, t) ==
    [ icao24        |-> flight.icao24,
      callsign      |-> flight.callsign,
      lat           |-> flight.lat,
      lon           |-> flight.lon,
      altitude      |-> flight.altitude,
      speed         |-> flight.speed,
      heading       |-> flight.heading,
      vertical_rate |-> flight.vertical_rate,
      squawk        |-> flight.squawk,
      type          |-> IF flight.type # "" THEN flight.type
                        ELSE classifyAircraft(flight),
      source        |-> sourceName,
      timestamp     |-> t,
      military      |-> isMilitaryAircraft(flight),
      threat_level  |-> calculateThreatLevelOfFlight(flight) ]

\* transformData(sourceName, data) at clock t, for the validated array
transformData(sourceName, data, t) ==
    LET fl == [i \in 1..Len(data) |->
                 transformFlight(data[i], sourceName, t)]
    IN  [ flights  |-> fl,
          metadata |-> [source |-> sourceName, timestamp |-> t,
                        count |-> Len(fl)] ]

\* assessThreats(flights): one entry for every flight above low
assessThreats(fl) ==
    LET AboveLow(f) == f.threat_level # "low"
        hot == SelectSeq(fl, AboveLow)
    IN  [i \in 1..Len(hot) |->
           [icao24 |-> hot[i].icao24, callsign |-> hot[i].callsign,
            level |-> hot[i].threat_level,
            location |-> [lat |-> hot[i].lat, lon |-> hot[i].lon],
            timestamp |-> hot[i].timestamp]]

\* enrichData(data): the weather and the metrics are constants of the mock
enrichData(data) ==
    [ flights |-> data.flights, metadata |-> data.metadata,
      threats |-> assessThreats(data.flights) ]

\* cleanCache: entries older than five minutes
CacheMaxAge == 300000

\* cacheData(sourceName, data) at clock t, cleanCache() included
cacheData(cache, sourceName, data, t) ==
    LET c == MapSet(cache, sourceName, [data |-> data, timestamp |-> t])
    IN  [k \in {x \in DOMAIN c : ~(t - c[x].timestamp > CacheMaxAge)}
           |-> c[k]]

\* processDataItem(item): the sequence is empty when the item is rejected
\* ("Data validation failed"), otherwise it holds the new cache and the
\* object handed to emit('dataUpdated', ...)
processDataItem(cache, item, t) ==
    LET validated == validateData(item.rawData)
    IN  IF validated = << >> THEN << >>
        ELSE LET enriched == enrichData(transformData(item.sourceName,
                                                      validated[1], t))
             IN  << [ cache |-> cacheData(cache, item.sourceName,
                                          enriched, t),
                      event |-> [ source    |-> item.sourceName,
                                  timestamp |-> item.timestamp,
                                  flights   |-> enriched.flights,
                                  metadata  |-> enriched.metadata ] ] >>

RECURSIVE processQueue(_, _)
\* processQueue(): every queued item is shifted and processed; an item
\* whose processing throws is dropped without an event.  p holds the
\* queue, the cache and the events emitted so far.  The awaits inside
\* resolve in microtasks, so no other handler runs before the queue is
\* empty and isProcessing is false again.
processQueue(p, t) ==
    IF Len(p.queue) = 0 THEN p
    ELSE LET item == Head(p.queue)
             r    == processDataItem(p.cache, item, t)
             rest == [p EXCEPT !.queue = Shift(p.queue)]
         IN  processQueue(
               IF r = << >> THEN rest
               ELSE [rest EXCEPT !.cache = r[1].cache,
                                 !.emitted = Append(@, r[1].event)],
               t)

\* processSourceData(sourceName, rawData) at clock t: the item is queued
\* and processed, the source's lastData is stamped; the error counters and
\* the connection status are not written
processSourceData(d, s, t) == [d EXCEPT !.sources[s].lastData = t]

\* a handleSourceError that gives up one failure later
handleSourceErrorLate(d, s) ==
    LET n  == d.sources[s].retryAttempts + 1
        d1 == updateConnectionStatus(
                [d EXCEPT !.sources[s].errorCount = @ + 1,
                          !.sources[s].retryAttempts = n], s, "error")
    IN  IF n <= RetryLimit
        THEN [d1 EXCEPT !.retryTimers[s] = @ \cup {RetryBaseDelay * n}]
        ELSE updateConnectionStatus(d1, s, "offline")

\* handleSourceError(sourceName, error)
handleSourceError(d, s) ==
    LET n  == d.sources[s].retryAttempts + 1
        d1 == updateConnectionStatus(
                [d EXCEPT !.sources[s].errorCount = @ + 1,
                          !.sources[s].retryAttempts = n], s, "error")
    IN  IF n < RetryLimit
        THEN [d1 EXCEPT !.retryTimers[s] = @ \cup {RetryBaseDelay * n}]
        ELSE updateConnectionStatus(d1, s, "offline")

\* retrySource(sourceName) with the set of enabled sources
retrySource(d, s, active) ==
    IF s \in active
    THEN [stopSource(d, s) EXCEPT !.restartTimers[s] = @ + 1]
    ELSE d

\* monitorConnections at clock t: an active source whose last data is
\* older than two minutes gets the status warning (lastData null is 0)
monitorConnections(d, t) ==
    [d EXCEPT !.connectionStatus =
        [s \in DOMAIN d.sources |->
           IF /\ d.sources[s].isActive
              /\ d.sources[s].lastData # 0
              /\ t - d.sources[s].lastData > StaleDataAfter
           THEN "warning" ELSE d.connectionStatus[s]]]

\* records of one response in one run
MaxPollLen == 2

\* the raw records a provider answers with
MilRecord ==
    [ icao24 |-> "4B1805", callsign |-> <<"M","I","L","1","2","3","4">>,
      lat |-> 35000, lon |-> 51000, altitude |-> 25000, speed |-> 450,
      heading |-> 180, vertical_rate |-> 0, squawk |-> "1200",
      type |-> "" ]

\* neither callsign nor identifier, low and slow
DarkLowSlow ==
    [ icao24 |-> "", callsign |-> << >>,
      lat |-> 35100, lon |-> 51100, altitude |-> 3000, speed |-> 80,
      heading |-> 90, vertical_rate |-> 0, squawk |-> "", type |-> "" ]

\* neither callsign nor identifier, high and fast
DarkHighFast ==
    [ icao24 |-> "", callsign |-> << >>,
      lat |-> 35200, lon |-> 51200, altitude |-> 35000, speed |-> 450,
      heading |-> 270, vertical_rate |-> 0, squawk |-> "", type |-> "" ]

\* an identifier and no position
NoPositionRecord ==
    [ icao24 |-> "C0FFEE", callsign |-> << >>,
      lat |-> 0, lon |-> 0, altitude |-> 12000, speed |-> 300,
      heading |-> 0, vertical_rate |-> 0, squawk |-> "", type |-> "" ]

\* no identifier, no callsign, no position (an empty object; a null in
\* the array is filtered out by the same test)
EmptyRecord ==
    [ icao24 |-> "", callsign |-> << >>,
      lat |-> 0, lon |-> 0, altitude |-> 0, speed |-> 0,
      heading |-> 0, vertical_rate |-> 0, squawk |-> "", type |-> "" ]

\* a record as generateMockFlights builds it
MockFlight ==
    [ icao24 |-> "A1B2C3", callsign |-> <<"U","A","L","1","2","3","4">>,
      lat |-> 40000, lon |-> -74000, altitude |-> 35000, speed |-> 450,
      heading |-> 45, vertical_rate |-> 0, squawk |-> "1200",
      type |-> "" ]

PollRecords ==
    {MilRecord, DarkLowSlow, DarkHighFast, NoPositionRecord, EmptyRecord}

\* the arrays of at most n elements of S
SeqsUpTo(S, n) == UNION {[1..k -> S] : k \in 0..n}

\* a response that is no object (undefined / null)
NoData == [isObject |-> FALSE, flights |-> << >>]

\* the response of the mock handler: { flights: generateMockFlights() }
MockPoll == [isObject |-> TRUE, flights |-> <<MockFlight>>]

\* the responses handed to onData
Polls ==
    {NoData} \cup { [isObject |-> TRUE, flights |-> fl] :
                      fl \in SeqsUpTo(PollRecords, MaxPollLen) }

\* the state vectors of an OpenSky response
OpenSkyStates ==
    { [ icao24 |-> "3C6444", callsign |-> <<"D","L","H","1">>,
        country |-> "Germany", lat |-> 50000, lon |-> 8500,
        alt |-> 10000, speed |-> 230, heading |-> 90 ],
      [ icao24 |-> "", callsign |-> << >>, country |-> "",
        lat |-> 0, lon |-> 0, alt |-> 9000, speed |-> 200,
        heading |-> 0 ],
      [ icao24 |-> "", callsign |-> << >>, country |-> "US",
        lat |-> 38000, lon |-> -77000, alt |-> 9000, speed |-> 200,
        heading |-> 0 ] }

\* the pipeline after the constructor
InitPq ==
    /\ processingQueue = << >>
    /\ isProcessing = FALSE
    /\ dataCache = << >>
    /\ dataUpdated = << >>
    /\ pqLast = [op |-> "init", src |-> "", rawData |-> NoData]
    /\ openSkyData = << >>

\* the state after initialize(): every source registered by
\* initializeSource, nothing enabled, nothing running
InitDs ==
    /\ isRunning = FALSE
    /\ activeSources = {}
    /\ sources = [s \in SourceNames |->
                    [isActive |-> FALSE, lastData |-> 0,
                     errorCount |-> 0, retryAttempts |-> 0]]
    /\ connectionStatus = [s \in SourceNames |-> "initializing"]
    /\ inflight = [s \in SourceNames |-> 0]
    /\ retryTimers = [s \in SourceNames |-> {}]
    /\ restartTimers = [s \in SourceNames |-> 0]
    /\ consecutive = [s \in SourceNames |-> 0]
    /\ dsLast = [op |-> "init", src |-> ""]

\* the manager's state becomes d
DsBecomes(d) ==
    /\ sources' = d.sources
    /\ connectionStatus' = d.connectionStatus
    /\ inflight' = d.inflight
    /\ retryTimers' = d.retryTimers
    /\ restartTimers' = d.restartTimers

\* the sources startSource would start have room for the first request
CanStart(S) ==
    \A s \in S : sources[s].isActive \/ inflight[s] < MaxInflight

\* startDataCollection()
StartDataCollection ==
    /\ CanStart(activeSources)
    /\ isRunning' = TRUE
    /\ DsBecomes(startSources(DsState, activeSources))
    /\ dsLast' = [op |-> "startDataCollection", src |-> ""]
    /\ UNCHANGED <<activeSources, consecutive, now>>
    /\ UNCHANGED <<varsPq, othersDs>>

\* stopDataCollection()
StopDataCollection ==
    /\ isRunning' = FALSE
    /\ DsBecomes(stopSources(DsState, SourceNames))
    /\ dsLast' = [op |-> "stopDataCollection", src |-> ""]
    /\ UNCHANGED <<activeSources, consecutive, now>>
    /\ UNCHANGED <<varsPq, othersDs>>

\* toggleSource(sourceName, enabled)
ToggleSource ==
    \E s \in SourceNames, enabled \in BOOLEAN :
      /\ (enabled /\ isRunning) => CanStart({s})
      /\ activeSources' = IF enabled THEN activeSources \cup {s}
                          ELSE activeSources \ {s}
      /\ DsBecomes(IF enabled
                   THEN (IF isRunning THEN startSource(DsState, s)
                         ELSE DsState)
                   ELSE stopSource(DsState, s))
      /\ dsLast' = [op |-> "toggleSource", src |-> s]
      /\ UNCHANGED <<isRunning, consecutive, now>>
      /\ UNCHANGED <<varsPq, othersDs>>

\* the handler's interval fires: fetchData() sends a request
HandlerInterval ==
    \E s \in SourceNames :
      /\ sources[s].isActive
      /\ inflight[s] < MaxInflight
      /\ inflight' = [inflight EXCEPT ![s] = @ + 1]
      /\ dsLast' = [op |-> "fetchData", src |-> s]
      /\ UNCHANGED <<isRunning, activeSources, sources, connectionStatus,
                     retryTimers, restartTimers, consecutive, now>>
      /\ UNCHANGED <<varsPq, othersDs>>

\* processSourceData(sourceName, rawData) on the queue: the item is pushed
\* and, no run being in progress, processQueue empties the queue
pushAndProcess(s, rawData, t) ==
    LET pushed == Append(processingQueue,
                         [sourceName |-> s, rawData |-> rawData,
                          timestamp |-> t])
        p      == [queue |-> pushed, cache |-> dataCache,
                   emitted |-> << >>]
    IN  IF isProcessing THEN p ELSE processQueue(p, t)

\* the pipeline's state becomes p
PqBecomes(p) ==
    /\ processingQueue' = p.queue
    /\ dataCache' = p.cache
    /\ dataUpdated' = p.emitted

\* a request of the mock handler is answered: fetchData hands the
\* response to onData, which is processSourceData
PollSucceeds ==
    \E s \in SourceNames :
      /\ inflight[s] > 0
      /\ DsBecomes(processSourceData(
                     [DsState EXCEPT !.inflight[s] = @ - 1], s, now))
      /\ PqBecomes(pushAndProcess(s, MockPoll, now))
      /\ consecutive' = [consecutive EXCEPT ![s] = 0]
      /\ dsLast' = [op |-> "processSourceData", src |-> s]
      /\ pqLast' = [op |-> "processSourceData", src |-> s,
                    rawData |-> MockPoll]
      /\ UNCHANGED <<isRunning, activeSources, now, isProcessing,
                     openSkyData>>
      /\ UNCHANGED othersDs

\* a request is answered by a provider: onData is handed any response
PollDelivers ==
    \E s \in SourceNames, rawData \in Polls :
      /\ inflight[s] > 0
      /\ DsBecomes(processSourceData(
                     [DsState EXCEPT !.inflight[s] = @ - 1], s, now))
      /\ PqBecomes(pushAndProcess(s, rawData, now))
      /\ consecutive' = [consecutive EXCEPT ![s] = 0]
      /\ dsLast' = [op |-> "processSourceData", src |-> s]
      /\ pqLast' = [op |-> "processSourceData", src |-> s,
                    rawData |-> rawData]
      /\ UNCHANGED <<isRunning, activeSources, now, isProcessing,
                     openSkyData>>
      /\ UNCHANGED othersDs

\* parseOpenSkyData(rawData) of the v1 manager on a response of one
\* state vector
ParseOpenSkyData ==
    \E state \in OpenSkyStates, rnd \in RandomSuffixes :
      /\ openSkyData' = parseOpenSkyData(<<state>>, rnd)
      /\ pqLast' = [op |-> "parseOpenSkyData", src |-> "opensky",
                    rawData |-> NoData]
      /\ UNCHANGED <<processingQueue, isProcessing, dataCache, dataUpdated>>
      /\ UNCHANGED <<now, varsDs, othersDs>>

\* a request fails: fetchData hands the error to onError, which is
\* handleSourceError
PollFails ==
    \E s \in SourceNames :
      /\ inflight[s] > 0
      /\ sources[s].errorCount < MaxErrors
      /\ DsBecomes(handleSourceError(
                     [DsState EXCEPT !.inflight[s] = @ - 1], s))
      /\ consecutive' = [consecutive EXCEPT ![s] = @ + 1]
      /\ dsLast' = [op |-> "handleSourceError", src |-> s]
      /\ UNCHANGED <<isRunning, activeSources, now>>
      /\ UNCHANGED <<varsPq, othersDs>>

\* a timer set by handleSourceError fires: retrySource
RetryTimer ==
    \E s \in SourceNames :
      \E delay \in retryTimers[s] :
        /\ DsBecomes(retrySource(
                       [DsState EXCEPT !.retryTimers[s] = @ \ {delay}],
                       s, activeSources))
        /\ dsLast' = [op |-> "retrySource", src |-> s]
        /\ UNCHANGED <<isRunning, activeSources, consecutive, now>>
        /\ UNCHANGED <<varsPq, othersDs>>

\* a timer set by retrySource fires: startSource
RestartTimer ==
    \E s \in SourceNames :
      /\ restartTimers[s] > 0
      /\ CanStart({s})
      /\ DsBecomes(startSource(
                     [DsState EXCEPT !.restartTimers[s] = @ - 1], s))
      /\ dsLast' = [op |-> "startSource", src |-> s]
      /\ UNCHANGED <<isRunning, activeSources, consecutive, now>>
      /\ UNCHANGED <<varsPq, othersDs>>

\* the 30 s interval of setupConnectionMonitoring
MonitorConnections ==
    /\ DsBecomes(monitorConnections(DsState, now))
    /\ dsLast' = [op |-> "monitorConnections", src |-> ""]
    /\ UNCHANGED <<isRunning, activeSources, consecutive, now>>
    /\ UNCHANGED <<varsPq, othersDs>>

NextDs ==
    \/ Tick
    \/ StartDataCollection
    \/ StopDataCollection
    \/ ToggleSource
    \/ HandlerInterval
    \/ PollSucceeds
    \/ PollFails
    \/ RetryTimer
    \/ RestartTimer
    \/ MonitorConnections

\* the data path: a source is enabled and started, polled and answered
NextPq ==
    \/ ToggleSource
    \/ StartDataCollection
    \/ HandlerInterval
    \/ PollDelivers
    \/ ParseOpenSkyData

----------------------------------------------------------------------------
(*   DataSourceManager v2: several sources, the timers and the queue as    *)
(*   the event loop runs them (src/js/data-sources-v2.js)                  *)

\* two of the four sources registered by initializeDataSources
MgrSources == {"FlightRadar24", "OpenSky"}

\* items handed to processSourceData in one run
MaxArrivals == 3

\* handleSourceError calls in one run
MaxFailures == 2

\* requests sent by the handlers in one run
MaxRequests == 2

\* the entry initializeSource stores for a source
BlankSource ==
    [isActive |-> FALSE, lastData |-> 0, errorCount |-> 0,
     retryAttempts |-> 0]

\* the manager after the constructor.  registered is the key set of
\* this.sources; connectionStatus is "" for a name without an entry;
\* intervals counts the live setInterval timers of a source's handler and
\* handle tells whether its this.interval is set;
\* monitorInterval and queueInterval are the intervals of
\* setupConnectionMonitoring and setupDataProcessing; answers counts the
\* requests answered; lateTimer is a history field: the kind of the
\* latest timer that fired after shutdown() ("" when none did)
NewManager ==
    [ isInitialized    |-> FALSE,
      isRunning        |-> FALSE,
      activeSources    |-> {},
      registered       |-> {},
      sources          |-> [s \in MgrSources |-> BlankSource],
      connectionStatus |-> [s \in MgrSources |-> ""],
      inflight         |-> [s \in MgrSources |-> 0],
      retryTimers      |-> [s \in MgrSources |-> {}],
      restartTimers    |-> [s \in MgrSources |-> 0],
      intervals        |-> [s \in MgrSources |-> 0],
      handle           |-> [s \in MgrSources |-> FALSE],
      monitorInterval  |-> FALSE,
      queueInterval    |-> FALSE,
      failures         |-> 0,
      answers          |-> 0,
      isShutdown       |-> FALSE,
      lateTimer        |-> "" ]

\* the queue after the constructor.  loops holds, for every processQueue
\* call that is suspended at its await, the item it shifted; arrivals
\* numbers the items (history field seq of an item); dequeued, processed,
\* failed and cleared are history fields: the numbers of the items that
\* were shifted, whose processing returned, whose processing threw, and
\* that shutdown() removed from the queue
NewPipe ==
    [ queue        |-> << >>,
      isProcessing |-> FALSE,
      loops        |-> << >>,
      cache        |-> << >>,
      listeners    |-> << >>,
      emitted      |-> << >>,
      arrivals     |-> 0,
      dequeued     |-> << >>,
      processed    |-> << >>,
      failed       |-> << >>,
      cleared      |-> {} ]

\* initializeSource(sourceInfo): the entry and the first status
initializeSource(m, s) ==
    updateConnectionStatus(
      [m EXCEPT !.registered = @ \cup {s}, !.sources[s] = BlankSource],
      s, "initializing")

RECURSIVE initializeDataSources(_, _, _)
\* initializeDataSources(): every source of S in turn; a source whose
\* handler.initialize rejects (failing) gets the status offline and no
\* entry
initializeDataSources(m, S, failing) ==
    IF S = {} THEN m
    ELSE LET s == CHOOSE x \in S : TRUE
         IN  initializeDataSources(
               IF s \in failing
               THEN updateConnectionStatus(m, s, "offline")
               ELSE initializeSource(m, s),
               S \ {s}, failing)

\* initialize(): the sources, then the two intervals
initialize(m, failing) ==
    [initializeDataSources(m, MgrSources, failing)
       EXCEPT !.monitorInterval = TRUE, !.queueInterval = TRUE,
              !.isInitialized = TRUE]

\* startSource(sourceName) when this.sources may lack the name
startSourceIfFound(m, s) ==
    IF s \in m.registered THEN startSource(m, s) ELSE m

\* stopSource(sourceName) when this.sources may lack the name
stopSourceIfFound(m, s) ==
    IF s \in m.registered THEN stopSource(m, s) ELSE m

\* a handleSourceError that reports the error on every connection
handleSourceErrorOnAll(m, s) ==
    [(IF s \in m.registered THEN handleSourceError(m, s) ELSE m)
       EXCEPT !.failures = @ + 1,
              !.connectionStatus = [o \in MgrSources |-> "error"]]

\* handleSourceError(sourceName, error) when this.sources may lack the
\* name; failedRequests counts every call
handleSourceErrorIfFound(m, s) ==
    [(IF s \in m.registered THEN handleSourceError(m, s) ELSE m)
       EXCEPT !.failures = @ + 1]

\* retrySource(sourceName) when this.sources may lack the name
retrySourceIfFound(m, s) ==
    IF s \in m.registered THEN retrySource(m, s, m.activeSources) ELSE m

\* toggleSource(sourceName, enabled)
toggleSource(m, s, enabled) ==
    IF enabled
    THEN LET m1 == [m EXCEPT !.activeSources = @ \cup {s}]
         IN  IF m.isRunning THEN startSourceIfFound(m1, s) ELSE m1
    ELSE stopSourceIfFound([m EXCEPT !.activeSources = @ \ {s}], s)

\* startDataCollection() of an initialized manager
startDataCollection(m) ==
    startSources([m EXCEPT !.isRunning = TRUE],
                 m.registered \cap m.activeSources)

\* stopDataCollection()
stopDataCollection(m) ==
    stopSources([m EXCEPT !.isRunning = FALSE], m.registered)

\* the part of processSourceData that writes the source: lastData
stampLastData(m, s, t) ==
    IF s \in m.registered THEN processSourceData(m, s, t) ELSE m

\* a processQueue that does not set isProcessing
processQueueStartUnflagged(p) ==
    IF p.isProcessing \/ Len(p.queue) = 0 THEN p
    ELSE [p EXCEPT !.loops = Append(@, Head(p.queue)),
                   !.dequeued = Append(@, Head(p.queue).seq),
                   !.queue = Shift(@)]

\* processQueue() up to its first await: nothing when a call is already
\* running or the queue is empty, otherwise isProcessing is set and the
\* first item is shifted and handed to processDataItem
processQueueStart(p) ==
    IF p.isProcessing \/ Len(p.queue) = 0 THEN p
    ELSE [p EXCEPT !.isProcessing = TRUE,
                   !.loops = Append(@, Head(p.queue)),
                   !.dequeued = Append(@, Head(p.queue).seq),
                   !.queue = Shift(@)]

\* the queue's part of processSourceData(sourceName, rawData) at clock t:
\* push, then processQueue() unless isProcessing
enqueue(p, s, rawData, t) ==
    LET q == [p EXCEPT !.arrivals = @ + 1,
                       !.queue = Append(@, [sourceName |-> s,
                                            rawData |-> rawData,
                                            timestamp |-> t,
                                            seq |-> p.arrivals + 1])]
    IN  IF ~q.isProcessing THEN processQueueStart(q) ELSE q

\* listeners registered for one event in one run
MaxListeners == 2

\* an emit without the try/catch around the callback: the first listener
\* that throws ends the forEach
emitToUncaught(listeners) ==
    LET throwing == {i \in 1..Len(listeners) : listeners[i] = "throws"}
    IN  IF throwing = {} THEN 1..Len(listeners)
        ELSE 1..(CHOOSE i \in throwing : \A j \in throwing : i <= j)

\* emit(event, data) of both classes on the listeners of the event: the
\* listeners that are called.  forEach calls every callback inside a
\* try/catch that logs what the callback throws.
emitTo(listeners) == 1..Len(listeners)

\* emit('dataUpdated', ...) for an item: every listener is called with the
\* event, a listener that throws is caught and logged.  The event is kept
\* as the item's number and source, with the number of listeners
\* registered when it was emitted and the listeners that were called.
emit(p, item) ==
    IF Len(p.listeners) = 0 THEN p
    ELSE [p EXCEPT !.emitted =
            Append(@, [seq |-> item.seq, source |-> item.sourceName,
                       threw |-> \E i \in 1..Len(p.listeners) :
                                    p.listeners[i] = "throws",
                       registered |-> Len(p.listeners),
                       called |-> emitTo(p.listeners)])]

\* processDataItem(item) and the emit after it at clock t: an item that
\* fails the validation throws and is logged; otherwise the enriched data
\* (kept as the item's number) is cached and the event emitted
settle(p, item, t) ==
    IF validateData(item.rawData) = << >>
    THEN [p EXCEPT !.failed = Append(@, item.seq)]
    ELSE emit([p EXCEPT !.cache = cacheData(@, item.sourceName,
                                            item.seq, t),
                        !.processed = Append(@, item.seq)],
              item)

\* the suspended calls without the k-th
WithoutLoop(loops, k) ==
    [i \in 1..(Len(loops) - 1) |->
       IF i < k THEN loops[i] ELSE loops[i + 1]]

\* the k-th suspended call goes round its while loop: the next item is
\* shifted, or isProcessing is cleared and the call ends
nextItem(p, k) ==
    IF Len(p.queue) > 0
    THEN [p EXCEPT !.loops[k] = Head(p.queue),
                   !.dequeued = Append(@, Head(p.queue).seq),
                   !.queue = Shift(@)]
    ELSE [p EXCEPT !.isProcessing = FALSE,
                   !.loops = WithoutLoop(@, k)]

\* a processQueue without the try/catch around the item: an item whose
\* processing throws ends the call where it stands
processQueueResumeUncaught(p, k, t) ==
    IF validateData(p.loops[k].rawData) = << >>
    THEN [settle(p, p.loops[k], t) EXCEPT !.loops = WithoutLoop(@, k)]
    ELSE nextItem(settle(p, p.loops[k], t), k)

\* processQueue() from the await of the k-th suspended call to its next
\* await or its end at clock t
processQueueResume(p, k, t) == nextItem(settle(p, p.loops[k], t), k)

\* shutdown() on the manager: stopDataCollection, then the maps are
\* cleared; no timer handle but the handlers' intervals is cleared
shutdown(m) ==
    [stopDataCollection(m)
       EXCEPT !.registered = {},
              !.sources = [s \in MgrSources |-> BlankSource],
              !.activeSources = {},
              !.connectionStatus = [s \in MgrSources |-> ""],
              !.isShutdown = TRUE]

\* shutdown() on the queue: the cache, the queue and the listeners are
\* cleared; isProcessing and a suspended processQueue call are not
shutdownPipe(p) ==
    [p EXCEPT !.cache = << >>,
              !.cleared = @ \cup {p.queue[i].seq : i \in 1..Len(p.queue)},
              !.queue = << >>,
              !.listeners = << >>]

\* a timer callback of kind k runs: kept when shutdown() came before
fired(m, k) ==
    IF m.isShutdown THEN [m EXCEPT !.lateTimer = k] ELSE m

\* timer callbacks are tasks of their own: they run when no continuation
\* of processQueue (a microtask) is pending
NoMicrotask == Len(pipe.loops) = 0

\* the responses handed to processSourceData by a caller
Payloads == {NoData, MockPoll}

\* what a dataUpdated listener does
ListenerKinds == {"returns", "throws"}

InitMg ==
    /\ mgr = NewManager
    /\ pipe = NewPipe

\* the handlers whose initialize rejects: none, or one of them
FailingHandlers == {{}, {"OpenSky"}}

\* initialize()
Initialize ==
    \E failing \in FailingHandlers :
      /\ ~mgr.isInitialized
      /\ mgr' = initialize(mgr, failing)
      /\ UNCHANGED <<pipe, now>>
      /\ UNCHANGED othersMg

\* the requests sent so far: those answered and those awaiting an answer
RequestsSent ==
    mgr.answers + mgr.inflight["FlightRadar24"] + mgr.inflight["OpenSky"]

\* the run has room for the first requests of the sources a start starts
MgCanStart(S) ==
    RequestsSent + Cardinality({s \in S : ~mgr.sources[s].isActive})
        <= MaxRequests

\* addEventListener('dataUpdated', callback)
AddEventListener ==
    \E kind \in ListenerKinds :
      /\ Len(pipe.listeners) = 0
      /\ pipe' = [pipe EXCEPT !.listeners = Append(@, kind)]
      /\ UNCHANGED <<mgr, now>>
      /\ UNCHANGED othersMg

\* addEventListener('dataUpdated', callback) when the event has a
\* listener already
AddFurtherListener ==
    \E kind \in ListenerKinds :
      /\ Len(pipe.listeners) > 0
      /\ Len(pipe.listeners) < MaxListeners
      /\ pipe' = [pipe EXCEPT !.listeners = Append(@, kind)]
      /\ UNCHANGED <<mgr, now>>
      /\ UNCHANGED othersMg

\* The application makes no call on a manager it has shut down; the
\* timers a shutdown leaves behind still fire.

\* toggleSource(sourceName, enabled) called by the application
MgToggleSource ==
    \E s \in MgrSources, enabled \in BOOLEAN :
      /\ ~mgr.isShutdown
      /\ (enabled /\ mgr.isRunning /\ s \in mgr.registered)
            => MgCanStart({s})
      /\ mgr' = toggleSource(mgr, s, enabled)
      /\ UNCHANGED <<pipe, now>>
      /\ UNCHANGED othersMg

\* startDataCollection() called by the application (it throws before
\* initialize())
MgStartDataCollection ==
    /\ ~mgr.isShutdown
    /\ mgr.isInitialized
    /\ MgCanStart(mgr.registered \cap mgr.activeSources)
    /\ mgr' = startDataCollection(mgr)
    /\ UNCHANGED <<pipe, now>>
    /\ UNCHANGED othersMg

\* stopDataCollection() called by the application
MgStopDataCollection ==
    /\ ~mgr.isShutdown
    /\ mgr' = stopDataCollection(mgr)
    /\ UNCHANGED <<pipe, now>>
    /\ UNCHANGED othersMg

\* an interval of a handler fires: fetchData sends a request
PollInterval ==
    \E s \in MgrSources :
      /\ NoMicrotask
      /\ mgr.intervals[s] > 0
      /\ RequestsSent < MaxRequests
      /\ mgr' = [mgr EXCEPT !.inflight[s] = @ + 1]
      /\ UNCHANGED <<pipe, now>>
      /\ UNCHANGED othersMg

\* the timeout of makeRequest fires: the mock response goes to onData,
\* which is processSourceData
RequestAnswered ==
    \E s \in MgrSources :
      /\ NoMicrotask
      /\ mgr.inflight[s] > 0
      /\ mgr' = stampLastData(
                  fired([mgr EXCEPT !.inflight[s] = @ - 1,
                                    !.answers = @ + 1], "request"),
                  s, now)
      /\ pipe' = enqueue(pipe, s, MockPoll, now)
      /\ UNCHANGED now
      /\ UNCHANGED othersMg

\* processSourceData(sourceName, rawData) called by the application
ProcessSourceData ==
    \E s \in MgrSources, rawData \in Payloads :
      /\ pipe.arrivals < MaxArrivals
      /\ mgr' = stampLastData(mgr, s, now)
      /\ pipe' = enqueue(pipe, s, rawData, now)
      /\ UNCHANGED now
      /\ UNCHANGED othersMg

\* a suspended processQueue call continues
ProcessQueueResumes ==
    \E k \in 1..Len(pipe.loops) :
      /\ pipe' = processQueueResume(pipe, k, now)
      /\ UNCHANGED <<mgr, now>>
      /\ UNCHANGED othersMg

\* handleSourceError(sourceName, error): onError of a handler or a caller
HandleSourceError ==
    \E s \in MgrSources :
      /\ ~mgr.isShutdown
      /\ mgr.failures < MaxFailures
      /\ mgr' = handleSourceErrorIfFound(mgr, s)
      /\ UNCHANGED <<pipe, now>>
      /\ UNCHANGED othersMg

\* a timeout of handleSourceError fires: retrySource
RetryTimeout ==
    \E s \in MgrSources :
     \E delay \in mgr.retryTimers[s] :
      /\ NoMicrotask
      /\ mgr' = retrySourceIfFound(
                  fired([mgr EXCEPT !.retryTimers[s] = @ \ {delay}],
                        "retry"), s)
      /\ UNCHANGED <<pipe, now>>
      /\ UNCHANGED othersMg

\* the timeout of retrySource fires: startSource
RestartTimeout ==
    \E s \in MgrSources :
      /\ NoMicrotask
      /\ mgr.restartTimers[s] > 0
      /\ s \in mgr.registered => MgCanStart({s})
      /\ mgr' = startSourceIfFound(
                  fired([mgr EXCEPT !.restartTimers[s] = @ - 1],
                        "restart"), s)
      /\ UNCHANGED <<pipe, now>>
      /\ UNCHANGED othersMg

\* the 30 s interval of setupConnectionMonitoring fires
MonitorInterval ==
    /\ NoMicrotask
    /\ mgr.monitorInterval
    /\ mgr' = monitorConnections(fired(mgr, "monitor"), now)
    /\ UNCHANGED <<pipe, now>>
    /\ UNCHANGED othersMg

\* the 100 ms interval of setupDataProcessing fires
QueueInterval ==
    /\ NoMicrotask
    /\ mgr.queueInterval
    /\ mgr' = fired(mgr, "queue")
    /\ pipe' = IF Len(pipe.queue) > 0 /\ ~pipe.isProcessing
               THEN processQueueStart(pipe) ELSE pipe
    /\ UNCHANGED now
    /\ UNCHANGED othersMg

\* shutdown() called by the application
Shutdown ==
    /\ ~mgr.isShutdown
    /\ mgr' = shutdown(mgr)
    /\ pipe' = shutdownPipe(pipe)
    /\ UNCHANGED now
    /\ UNCHANGED othersMg

\* the sources' lifecycle: polls, errors, retries, the timers, shutdown
NextMg ==
    \/ Initialize
    \/ MgToggleSource
    \/ MgStartDataCollection
    \/ MgStopDataCollection
    \/ PollInterval
    \/ RequestAnswered
    \/ ProcessQueueResumes
    \/ HandleSourceError
    \/ RetryTimeout
    \/ RestartTimeout
    \/ MonitorInterval
    \/ QueueInterval
    \/ Shutdown

\* the queue: items handed over by callers while processQueue is suspended
NextMq ==
    \/ Initialize
    \/ AddEventListener
    \/ ProcessSourceData
    \/ ProcessQueueResumes
    \/ QueueInterval
    \/ Shutdown

----------------------------------------------------------------------------
(*               DataSourceManager v1 (src/unnamed/part_003)               *)

\* two of the four sources registered by initializeSources
SourceKeys == {"flightradar24", "opensky"}

\* C4ISR_CONFIG.DATA_SOURCES.* of src/js/config.js: the entries carry
\* UPDATE_INTERVAL and MAX_REQUESTS_PER_MINUTE and no RETRY_ATTEMPTS
SourceConfig(s) ==
    IF s = "flightradar24"
    THEN [UPDATE_INTERVAL |-> 5000, MAX_REQUESTS_PER_MINUTE |-> 60,
          hasRETRY_ATTEMPTS |-> FALSE, RETRY_ATTEMPTS |-> 0]
    ELSE [UPDATE_INTERVAL |-> 10000, MAX_REQUESTS_PER_MINUTE |-> 30,
          hasRETRY_ATTEMPTS |-> FALSE, RETRY_ATTEMPTS |-> 0]

\* isRateLimited: the counter is reset after 60000 ms
RateWindow == 60000

\* the number 0 that initializeSources stores in requestCounters[key]:
\* a primitive, which has neither a count nor a lastReset
NumberZero == [isObject |-> FALSE, count |-> 0, lastReset |-> 0]

\* isRateLimited(sourceKey) on the stored counter at clock t.  On a
\* primitive, counter.lastReset and counter.count read undefined, so both
\* comparisons are false, and counter.count++ throws a TypeError (class
\* bodies are strict code).  The answer is the outcome and the counter.
isRateLimited(counter, t, maxRequests) ==
    IF ~counter.isObject
    THEN [outcome |-> "TypeError", counter |-> counter]
    ELSE LET c1 == IF t - counter.lastReset > RateWindow
                   THEN [counter EXCEPT !.count = 0, !.lastReset = t]
                   ELSE counter
         IN  IF c1.count >= maxRequests
             THEN [outcome |-> "limited", counter |-> c1]
             ELSE [outcome |-> "free",
                   counter |-> [c1 EXCEPT !.count = @ + 1]]

\* errorCount < config.RETRY_ATTEMPTS, false when the entry is undefined
BelowRetryAttempts(n, cfg) == cfg.hasRETRY_ATTEMPTS /\ n < cfg.RETRY_ATTEMPTS

\* the mutable state of the v1 manager; dispatched is the event a call
\* dispatches on window ("" when it dispatches none)
V1State ==
    [ sources         |-> sourcesV1,
      activeSources   |-> activeSourcesV1,
      updateIntervals |-> updateIntervals,
      requestCounters |-> requestCounters,
      requestsSent    |-> requestsSent,
      retryPolls      |-> retryPolls,
      dispatched      |-> "" ]

\* checkSourceStatus(sourceKey) when testSourceConnection answers isOnline
checkSourceStatus(v, s, isOnline) ==
    IF isOnline
    THEN [v EXCEPT !.sources[s].status = "online",
                   !.sources[s].errorCount = 0,
                   !.sources[s].retryAttempts = 0,
                   !.sources[s].connection = "connected"]
    ELSE [v EXCEPT !.sources[s].status = "offline",
                   !.sources[s].connection = "disconnected"]

\* an activateSource that does not look at the status
activateSourceAnyStatus(v, s) ==
    IF s \in v.activeSources THEN v
    ELSE [v EXCEPT !.activeSources = @ \cup {s},
                   !.updateIntervals = @ \cup {s},
                   !.dispatched = "sourceActivated"]

\* activateSource(sourceKey), with startDataUpdates
activateSource(v, s) ==
    IF s \in v.activeSources \/ v.sources[s].status # "online" THEN v
    ELSE [v EXCEPT !.activeSources = @ \cup {s},
                   !.updateIntervals = @ \cup {s},
                   !.dispatched = "sourceActivated"]

\* deactivateSource(sourceKey), with stopDataUpdates
deactivateSource(v, s) ==
    IF s \notin v.activeSources THEN v
    ELSE [v EXCEPT !.activeSources = @ \ {s},
                   !.updateIntervals = @ \ {s},
                   !.dispatched = "sourceDeactivated"]

\* updateSourceData(sourceKey) at clock t; answer is what the fetch of
\* the source gives when it is executed: "data", "none" or "error"
updateSourceData(v, s, t, answer) ==
    IF s \notin v.activeSources THEN v
    ELSE LET rl == isRateLimited(v.requestCounters[s], t,
                                 SourceConfig(s).MAX_REQUESTS_PER_MINUTE)
             v1 == [v EXCEPT !.requestCounters[s] = rl.counter]
             v2 == [v1 EXCEPT !.requestsSent[s] = @ + 1]
             caught(w) ==
               LET n == w.sources[s].errorCount + 1
               IN  [w EXCEPT !.sources[s].errorCount = n,
                             !.retryPolls[s] =
                               IF BelowRetryAttempts(n, SourceConfig(s))
                               THEN @ + 1 ELSE @]
         IN  CASE rl.outcome = "limited"   -> v1
               [] rl.outcome = "TypeError" -> caught(v1)
               [] rl.outcome = "free" /\ answer = "data" ->
                    [v2 EXCEPT !.sources[s].lastData = t]
               [] rl.outcome = "free" /\ answer = "none" -> v2
               [] OTHER -> caught(v2)

\* the state after the constructor (initializeSources)
InitV1 ==
    /\ sourcesV1 = [s \in SourceKeys |->
                      [status |-> "offline", lastData |-> 0,
                       errorCount |-> 0, retryAttempts |-> 0,
                       connection |-> "disconnected"]]
    /\ activeSourcesV1 = {}
    /\ updateIntervals = {}
    /\ requestCounters = [s \in SourceKeys |-> NumberZero]
    /\ requestsSent = [s \in SourceKeys |-> 0]
    /\ retryPolls = [s \in SourceKeys |-> 0]
    /\ v1Last = [op |-> "init", src |-> ""]

\* the v1 manager's state becomes v
V1Becomes(v) ==
    /\ sourcesV1' = v.sources
    /\ activeSourcesV1' = v.activeSources
    /\ updateIntervals' = v.updateIntervals
    /\ requestCounters' = v.requestCounters
    /\ requestsSent' = v.requestsSent
    /\ retryPolls' = v.retryPolls

\* the status probe of startMonitoring (at once, then every 30 s)
CheckSourceStatus ==
    \E s \in SourceKeys, isOnline \in BOOLEAN :
      /\ V1Becomes(checkSourceStatus(V1State, s, isOnline))
      /\ v1Last' = [op |-> "checkSourceStatus", src |-> s]
      /\ UNCHANGED now
      /\ UNCHANGED othersV1

\* the source checkbox is ticked
ActivateSource ==
    \E s \in SourceKeys :
      /\ V1Becomes(activateSource(V1State, s))
      /\ v1Last' = [op |-> "activateSource", src |-> s,
                    event |-> activateSource(V1State, s).dispatched]
      /\ UNCHANGED now
      /\ UNCHANGED othersV1

\* the source checkbox is cleared
DeactivateSource ==
    \E s \in SourceKeys :
      /\ V1Becomes(deactivateSource(V1State, s))
      /\ v1Last' = [op |-> "deactivateSource", src |-> s,
                    event |-> deactivateSource(V1State, s).dispatched]
      /\ UNCHANGED now
      /\ UNCHANGED othersV1

\* a poll: the interval of startDataUpdates fires, or a retry timer set
\* by an earlier failed poll does
UpdateSourceData ==
    \E s \in SourceKeys, timer \in {"interval", "retry"},
       answer \in {"data", "none", "error"} :
      /\ IF timer = "interval" THEN s \in updateIntervals
         ELSE retryPolls[s] > 0
      /\ sourcesV1[s].errorCount < MaxErrors
      /\ V1Becomes(updateSourceData(
            IF timer = "interval" THEN V1State
            ELSE [V1State EXCEPT !.retryPolls[s] = @ - 1],
            s, now, answer))
      /\ v1Last' = [op |-> "updateSourceData", src |-> s]
      /\ UNCHANGED now
      /\ UNCHANGED othersV1

NextV1 ==
    \/ Tick
    \/ CheckSourceStatus
    \/ ActivateSource
    \/ DeactivateSource
    \/ UpdateSourceData

\* ---- the HTTP requests of the v1 manager -------------------------------
\* what becomes of one fetch: a response with an ok status, a response
\* with an error status, a rejected fetch (network error), or no answer
\* within the timeout, when the timer of makeRequest aborts the fetch
RequestOutcomes == {"ok", "httpError", "networkError", "timeout"}

\* C4ISR_CONFIG.DEVELOPMENT.MOCK_DATA of src/js/config.js
MOCK_DATA == FALSE

\* a makeRequest without the abort timer: the slow response is waited for
\* and taken
makeRequestWithoutTimer(outcome) ==
    [ threw |-> outcome = "networkError",
      ok    |-> outcome \in {"ok", "timeout"} ]

\* makeRequest(url, options): the response (with its ok flag), or the
\* error of the fetch thrown again; an aborted fetch rejects like a
\* failed one
makeRequest(outcome) ==
    [ threw |-> outcome \in {"networkError", "timeout"},
      ok    |-> outcome = "ok" ]

\* testSourceConnection(sourceKey): response.ok, false when the request
\* throws
testSourceConnection(outcome) ==
    LET response == makeRequest(outcome)
    IN  IF response.threw THEN FALSE ELSE response.ok

\* fetchFlightRadar24Data / fetchOpenSkyData: the parsed data of an ok
\* response; a thrown request and an error status both end in the catch,
\* which answers sample data under MOCK_DATA and throws otherwise
fetchSourceData(outcome) ==
    LET response == makeRequest(outcome)
    IN  IF ~response.threw /\ response.ok THEN "data"
        ELSE IF MOCK_DATA THEN "data" ELSE "error"

\* the status probe of startMonitoring with the outcome of its request
ProbeSource ==
    \E s \in SourceKeys, outcome \in RequestOutcomes :
      /\ V1Becomes(checkSourceStatus(V1State, s,
                                     testSourceConnection(outcome)))
      /\ v1Last' = [op |-> "checkSourceStatus", src |-> s,
                    outcome |-> outcome]
      /\ UNCHANGED now
      /\ UNCHANGED othersV1

\* a poll with the outcome its request has when it is sent
PollSource ==
    \E s \in SourceKeys, timer \in {"interval", "retry"},
       outcome \in RequestOutcomes :
      /\ IF timer = "interval" THEN s \in updateIntervals
         ELSE retryPolls[s] > 0
      /\ sourcesV1[s].errorCount < MaxErrors
      /\ V1Becomes(updateSourceData(
            IF timer = "interval" THEN V1State
            ELSE [V1State EXCEPT !.retryPolls[s] = @ - 1],
            s, now, fetchSourceData(outcome)))
      /\ v1Last' = [op |-> "updateSourceData", src |-> s,
                    outcome |-> outcome]
      /\ UNCHANGED now
      /\ UNCHANGED othersV1

\* probes and polls with the outcomes of their requests
NextRq ==
    \/ ProbeSource
    \/ ActivateSource
    \/ DeactivateSource
    \/ PollSource

\* Both managers are a class DataSourceManager at the top level of their
\* script, so a page loads one of them: app.js works with the v1 manager,
\* app-v2.js with the v2 manager.

\* the page is that of the v2 manager: initialize()
V2Initialize == v1Last.op = "init" /\ Initialize

\* the page is that of the v1 manager: the status probe
V1CheckSourceStatus == ~mgr.isInitialized /\ CheckSourceStatus

\* the page is that of the v1 manager: the checkbox is ticked
V1ActivateSource == ~mgr.isInitialized /\ ActivateSource

\* the page is that of the v1 manager: the checkbox is cleared
V1DeactivateSource == ~mgr.isInitialized /\ DeactivateSource

\* the polling intervals of either manager: sources are started, stopped,
\* toggled, retried, activated and deactivated
NextIv ==
    \/ V2Initialize
    \/ MgToggleSource
    \/ MgStartDataCollection
    \/ MgStopDataCollection
    \/ HandleSourceError
    \/ RetryTimeout
    \/ RestartTimeout
    \/ V1CheckSourceStatus
    \/ V1ActivateSource
    \/ V1DeactivateSource

----------------------------------------------------------------------------
(*        ThreatDetectionSystem v2 (src/js/threat-detection-v2.js)         *)

\* thresholds with medium starting at 25
thresholdsMediumFrom25 ==
    [low |-> 10, medium |-> 25, high |-> 60, critical |-> 90]

\* this.thresholds
thresholds == [low |-> 10, medium |-> 30, high |-> 60, critical |-> 90]

\* this.maxThreatHistory
maxThreatHistory == 1000

\* one hour of the wall clock, ms
HourMs == 3600000

\* new Date().getHours() at clock t (local time taken as UTC)
getHours(t) == (t \div HourMs) % 24

\* the weights set by setupPatternRecognition
patternWeight(p) ==
    CASE p = "radar_evasion"       -> 8
      [] p = "military_formation"  -> 6
      [] p = "suspicious_circling" -> 5
      [] p = "stealth_approach"    -> 9
      [] p = "gps_jamming"         -> 7
      [] p = "unknown_aircraft"    -> 4

\* isUnknownAircraftPattern(flight)
isUnknownAircraftPattern(flight) ==
    \/ flight.type = "unknown"
    \/ flight.callsign = << >>
    \/ flight.callsign = <<"N", "/", "A">>
    \/ flight.id = ""

\* analyzePattern(flight): the history, radar and neighbourhood lookups
\* are placeholders that answer [] or false, so radar_evasion,
\* military_formation, suspicious_circling and gps_jamming never match
analyzePattern(flight) ==
    IF isUnknownAircraftPattern(flight) THEN <<"unknown_aircraft">>
    ELSE << >>

\* hasTransponderAnomalies(flight)
hasTransponderAnomalies(flight) ==
    \/ flight.id = ""
    \/ flight.id = "N/A"
    \/ flight.callsign = <<"N", "/", "A">>
    \/ flight.altitude = 0
    \/ flight.speed = 0

\* detectAnomaly(flight): the four history checks see empty histories
detectAnomaly(flight) ==
    IF hasTransponderAnomalies(flight) THEN <<"transponder_anomalies">>
    ELSE << >>

\* a getAnomalyWeight that weighs a transponder anomaly ten times as much
getAnomalyWeightTenfold(anomaly) ==
    CASE anomaly = "unusual_altitude_changes" -> 5
      [] anomaly = "unusual_speed_changes"    -> 4
      [] anomaly = "unusual_heading_changes"  -> 3
      [] anomaly = "position_inconsistencies" -> 8
      [] anomaly = "transponder_anomalies"    -> 60
      [] OTHER -> 2

\* getAnomalyWeight(anomaly)
getAnomalyWeight(anomaly) ==
    CASE anomaly = "unusual_altitude_changes" -> 5
      [] anomaly = "unusual_speed_changes"    -> 4
      [] anomaly = "unusual_heading_changes"  -> 3
      [] anomaly = "position_inconsistencies" -> 8
      [] anomaly = "transponder_anomalies"    -> 6
      [] OTHER -> 2

\* assessLocationThreat(flight): getSensitiveAreas() is empty
assessLocationThreat(flight) == [score |-> 0, reason |-> "null"]

\* an assessTimeThreat that scores by the hour itself
assessTimeThreatByHour(t) ==
    [score |-> getHours(t) \div 8, reason |-> "Suspicious timing"]

\* assessTimeThreat(flight) at clock t
assessTimeThreat(t) ==
    IF getHours(t) >= 23 \/ getHours(t) <= 5
    THEN [score |-> 3, reason |-> "Suspicious timing"]
    ELSE [score |-> 0, reason |-> "null"]

\* a calculateThreatLevel with the breakpoints low < 10, medium < 30,
\* high < 60, critical from 60
calculateThreatLevelUpperBounds(score) ==
    IF score >= thresholds.high THEN "critical"
    ELSE IF score >= thresholds.medium THEN "high"
    ELSE IF score >= thresholds.low THEN "medium"
    ELSE "low"

\* calculateThreatLevel(score)
calculateThreatLevel(score) ==
    IF score >= thresholds.critical THEN "critical"
    ELSE IF score >= thresholds.high THEN "high"
    ELSE IF score >= thresholds.medium THEN "medium"
    ELSE "low"

\* calculateConfidence(patterns, anomalies, score), in thousandths
calculateConfidence(patterns, anomalies, score) ==
    Min2(500 + Len(patterns) * 100 + Len(anomalies) * 50
             + Min2(score * 10, 300),
         1000)

RECURSIVE SumSeq(_, _)
\* the sum of w over an array
SumSeq(s, i) == IF i > Len(s) THEN 0 ELSE s[i] + SumSeq(s, i + 1)

\* classifyThreat(flight, patterns, anomalies) at clock t; details is the
\* set of the keys written into the details object
classifyThreat(flight, patterns, anomalies, t) ==
    LET base  == (IF flight.type = "military" THEN 20 ELSE 0)
                 + (IF flight.type = "unknown" THEN 15 ELSE 0)
        pw    == [i \in 1..Len(patterns) |-> patternWeight(patterns[i])]
        aw    == [i \in 1..Len(anomalies) |-> getAnomalyWeight(anomalies[i])]
        loc   == assessLocationThreat(flight)
        tim   == assessTimeThreat(t)
        score == base + SumSeq(pw, 1) + SumSeq(aw, 1) + loc.score + tim.score
    IN  [ level      |-> calculateThreatLevel(score),
          score      |-> score,
          confidence |-> calculateConfidence(patterns, anomalies, score),
          details    |->
             (IF flight.type = "military" THEN {"military_aircraft"} ELSE {})
             \cup (IF flight.type = "unknown" THEN {"unknown_aircraft"}
                   ELSE {})
             \cup {patterns[i] : i \in 1..Len(patterns)}
             \cup {anomalies[i] : i \in 1..Len(anomalies)}
             \cup (IF loc.score > 0 THEN {"sensitive_location"} ELSE {})
             \cup (IF tim.score > 0 THEN {"suspicious_timing"} ELSE {}) ]

\* a detectStealth that takes a flight without callsign for one with
\* minimal emissions
detectStealthByCallsign(flight) == flight.callsign = << >>

\* detectStealth(flight).detected: the radar, emission, path and infrared
\* lookups are placeholders, so no indicator is ever found
detectStealth(flight) == FALSE

\* escalateThreatLevel(currentLevel)
escalateThreatLevel(level) ==
    CASE level = "low"    -> "medium"
      [] level = "medium" -> "high"
      [] OTHER            -> "critical"

\* isSignificantThreat(level)
isSignificantThreat(level) == level \in {"medium", "high", "critical"}

\* the analysis object analyzeFlight builds at clock t
Analysis(flight, t) ==
    LET patterns  == analyzePattern(flight)
        anomalies == detectAnomaly(flight)
        c         == classifyThreat(flight, patterns, anomalies, t)
        stealth   == detectStealth(flight)
    IN  [ flightId    |-> flight.id,
          timestamp   |-> t,
          patterns    |-> IF stealth
                          THEN Append(patterns, "stealth_approach")
                          ELSE patterns,
          anomalies   |-> anomalies,
          threatLevel |-> IF stealth THEN escalateThreatLevel(c.level)
                          ELSE c.level,
          confidence  |-> c.confidence,
          details     |-> c.details ]

\* emitThreatAlert(analysis) on the threat history
emitThreatAlert(history, analysis) ==
    LET threat == [ id |-> analysis.flightId,
                    level |-> analysis.threatLevel,
                    confidence |-> analysis.confidence,
                    patterns |-> analysis.patterns,
                    anomalies |-> analysis.anomalies,
                    details |-> analysis.details,
                    timestamp |-> analysis.timestamp ]
        h == Append(history, threat)
    IN  IF Len(h) > maxThreatHistory THEN SliceLast(h, maxThreatHistory)
        ELSE h

\* this.alertThresholds of the v1 system (src/unnamed/part_005), in
\* thousandths
alertThresholds == [low |-> 300, medium |-> 600, high |-> 800,
                    critical |-> 950]

\* calculateThreatLevel(threatScore) of the v1 system
calculateThreatLevelV1(threatScore) ==
    IF threatScore >= alertThresholds.critical THEN "CRITICAL"
    ELSE IF threatScore >= alertThresholds.high THEN "HIGH"
    ELSE IF threatScore >= alertThresholds.medium THEN "MEDIUM"
    ELSE IF threatScore >= alertThresholds.low THEN "LOW"
    ELSE "NONE"

\* AIThreatAnalyzer.analyzeFlight(flightData) in thousandths; random is
\* Math.random() * 0.1, and isInRestrictedZone of the analyzer is false
aiAnalyzeFlight(flightData, random) ==
    Min2( (IF flightData.aircraft_type = "MILITARY" THEN 300 ELSE 0)
          + (IF flightData.aircraft_type = "UAV" THEN 400 ELSE 0)
          + (IF flightData.altitude < 500 THEN 200 ELSE 0)
          + (IF flightData.altitude > 40000 THEN 200 ELSE 0)
          + (IF flightData.speed > 1000 THEN 200 ELSE 0)
          + (IF flightData.speed < 100 THEN 300 ELSE 0)
          + random,
          1000 )

\* values of Math.random() * 0.1, which lies in [0, 0.1), in thousandths
RandomFactors == {0, 50, 99}

\* the flights handed to the v1 analyzer, one per identifier
AIFlights ==
    { [id |-> "ABC123", aircraft_type |-> "MILITARY", altitude |-> 25000,
       speed |-> 450],
      [id |-> "UAV7", aircraft_type |-> "UAV", altitude |-> 400,
       speed |-> 60] }

\* analyses in one run
MaxAnalyses == 3

\* hours the clock advances in one run
MaxHours == 2

\* the clock when the system starts: 04:00 or 22:00
StartTimes == {4 * HourMs, 22 * HourMs}

\* a military aircraft that shows neither callsign nor speed
SilentMilitary ==
    [ parseFlight(RawMilitary, "adsb", "k3x9")[1]
        EXCEPT !.id = "SIL001", !.callsign = << >>, !.speed = 0 ]

\* the same aircraft once its transponder reports a speed again
ReportingMilitary == [SilentMilitary EXCEPT !.speed = 450]

\* the flights handed to analyzeFlight: one object per identifier, and
\* two objects for SIL001 (its data changes between two cycles)
AnalysedFlights ==
    { parseFlight(RawMilitary, "flightradar24", "k3x9")[1],
      parseFlight(RawNoId, "adsb", "k3x9")[1],
      parseFlight(RawAirliner, "flightradar24", "k3x9")[1],
      SilentMilitary,
      ReportingMilitary }

\* the state after the constructor and initialize()
InitTh ==
    /\ threats = << >>
    /\ threatHistory = << >>
    /\ thNow \in StartTimes
    /\ thStart = thNow
    /\ analysed = 0
    /\ classified = << >>
    /\ snapshots = << >>
    /\ aiScores = << >>
    /\ thLast = [op |-> "init", flightId |-> "", prev |-> -1,
                 same |-> FALSE]

\* an hour passes
HourPasses ==
    /\ thNow + HourMs <= thStart + MaxHours * HourMs
    /\ thNow' = thNow + HourMs
    /\ thLast' = [op |-> "hour", flightId |-> "", prev |-> -1,
                  same |-> FALSE]
    /\ UNCHANGED <<threats, threatHistory, thStart, analysed, classified,
                   snapshots, aiScores>>
    /\ UNCHANGED <<now, othersTh>>

\* periodic passes of the threat system in one run
MaxPasses == 2

\* the threat system's timer and listeners after the constructor.  handle
\* is this.monitoringInterval being set, intervals the number of its
\* setInterval timers that are alive, listeners what each threatDetected
\* listener does when called; passes (the runs of performThreatAssessment
\* started by the interval), last (the latest call) and delivered (the
\* flight of the latest threatDetected event, the number of listeners
\* registered then and the listeners that were called with it) are history
\* fields
NewTds ==
    [ isMonitoring |-> FALSE,
      handle       |-> FALSE,
      intervals    |-> 0,
      listeners    |-> << >>,
      passes       |-> 0,
      last         |-> "",
      delivered    |-> [flightId |-> "", registered |-> 0, called |-> {}] ]

InitTm == tds = NewTds

\* startMonitoring(): nothing when monitoring already, otherwise the flag
\* and the 2 s interval
startMonitoring(t) ==
    IF t.isMonitoring THEN [t EXCEPT !.last = "startMonitoring again"]
    ELSE [setIntervalOn(t) EXCEPT !.isMonitoring = TRUE,
                                  !.last = "startMonitoring"]

\* stopMonitoring(): nothing when not monitoring, otherwise the flag is
\* cleared and the interval whose handle is stored is cleared
stopMonitoring(t) ==
    IF ~t.isMonitoring THEN [t EXCEPT !.last = "stopMonitoring again"]
    ELSE [clearIntervalOn(t) EXCEPT !.isMonitoring = FALSE,
                                    !.last = "stopMonitoring"]

\* startMonitoring() called by the application
StartMonitoring ==
    /\ tds' = startMonitoring(tds)
    /\ UNCHANGED <<now, othersTds>>

\* stopMonitoring() called by the application
StopMonitoring ==
    /\ tds' = stopMonitoring(tds)
    /\ UNCHANGED <<now, othersTds>>

\* the 2 s interval of startMonitoring fires: performThreatAssessment,
\* which returns at once because getCurrentFlightData() is the empty array
MonitoringInterval ==
    /\ tds.intervals > 0
    /\ tds.passes < MaxPasses
    /\ tds' = [tds EXCEPT !.passes = @ + 1,
                          !.last = IF tds.isMonitoring THEN "interval"
                                   ELSE "interval after stop"]
    /\ UNCHANGED <<now, othersTds>>

\* the periodic passes of the tracker and of the threat system: starts
\* and stops in any order, the intervals firing between them
NextTm ==
    \/ startTracking
    \/ stopTracking
    \/ TrackingInterval
    \/ ShutdownTracker
    \/ StartMonitoring
    \/ StopMonitoring
    \/ MonitoringInterval

\* on('threatDetected', callback)
OnThreatDetected ==
    \E kind \in ListenerKinds :
      /\ Len(tds.listeners) < MaxListeners
      /\ tds' = [tds EXCEPT !.listeners = Append(@, kind)]
      /\ UNCHANGED <<now, othersTds>>

\* emit('threatDetected', threat) of emitThreatAlert for a flight
emitThreatDetected(t, flightId) ==
    IF Len(t.listeners) = 0 THEN t
    ELSE [t EXCEPT !.delivered = [flightId |-> flightId,
                                  registered |-> Len(t.listeners),
                                  called |-> emitTo(t.listeners)]]

\* analyzeFlight(flight)
AnalyzeFlight ==
    \E flight \in AnalysedFlights :
      LET analysis == Analysis(flight, thNow)
      IN  /\ analysed < MaxAnalyses
          /\ analysed' = analysed + 1
          /\ threats' = MapSet(threats, flight.id, analysis)
          /\ threatHistory' =
               IF isSignificantThreat(analysis.threatLevel)
               THEN emitThreatAlert(threatHistory, analysis)
               ELSE threatHistory
          /\ classified' =
               MapSet(classified, flight.id,
                      classifyThreat(flight, analyzePattern(flight),
                                     detectAnomaly(flight), thNow))
          /\ tds' = IF isSignificantThreat(analysis.threatLevel)
                     THEN emitThreatDetected(tds, flight.id)
                     ELSE tds
          /\ snapshots' = MapSet(snapshots, flight.id, flight)
          /\ thLast' = [op |-> "analyzeFlight", flightId |-> flight.id,
                        prev |-> IF flight.id \in DOMAIN threats
                                 THEN threats[flight.id].timestamp
                                 ELSE -1,
                        same |-> /\ flight.id \in DOMAIN snapshots
                                 /\ snapshots[flight.id] = flight]
          /\ UNCHANGED <<thNow, thStart, aiScores>>
          /\ UNCHANGED <<now, trTimer, varsTr, varsDs, varsPq, varsV1,
                         varsLv, varsMg>>

\* clearThreatHistory()
ClearThreatHistory ==
    /\ threatHistory # << >>
    /\ threatHistory' = << >>
    /\ thLast' = [op |-> "clearThreatHistory", flightId |-> "",
                  prev |-> -1, same |-> FALSE]
    /\ UNCHANGED <<threats, thNow, thStart, analysed, classified,
                   snapshots, aiScores>>
    /\ UNCHANGED <<now, othersTh>>

\* AIThreatAnalyzer.analyzeFlight(flightData) of the v1 system
AIAnalyzeFlight ==
    \E flightData \in AIFlights, random \in RandomFactors :
      /\ analysed < MaxAnalyses
      /\ analysed' = analysed + 1
      /\ aiScores' = MapSet(aiScores, flightData.id,
                            aiAnalyzeFlight(flightData, random))
      /\ thLast' = [op |-> "aiAnalyzeFlight", flightId |-> flightData.id,
                    prev |-> -1, same |-> FALSE]
      /\ UNCHANGED <<threats, threatHistory, thNow, thStart, classified,
                     snapshots>>
      /\ UNCHANGED <<now, othersTh>>

NextTh ==
    \/ HourPasses
    \/ AnalyzeFlight
    \/ ClearThreatHistory
    \/ AIAnalyzeFlight

\* The manager and the threat system share no state, so the steps of one
\* are followed in the runs in which the other has not acted.

\* the threat system has not acted
ThreatSystemIdle == tds = NewTds /\ analysed = 0

\* the manager's queue has not acted
QueueIdle == pipe = NewPipe

\* addEventListener on the manager, the threat system idle
MgrAddEventListener == ThreatSystemIdle /\ AddEventListener

\* processSourceData on the manager, the threat system idle
MgrProcessSourceData == ThreatSystemIdle /\ ProcessSourceData

\* on('threatDetected', callback), the manager idle
TdsOnThreatDetected == QueueIdle /\ OnThreatDetected

\* analyzeFlight(flight), the manager idle
TdsAnalyzeFlight == QueueIdle /\ AnalyzeFlight

\* the events and their listeners: items are queued and processed,
\* flights are analysed, listeners are registered in between
NextEm ==
    \/ MgrAddEventListener
    \/ AddFurtherListener
    \/ MgrProcessSourceData
    \/ ProcessQueueResumes
    \/ TdsOnThreatDetected
    \/ TdsAnalyzeFlight


----------------------------------------------------------------------------
(*   Scoring cycles on one flight: the three score-to-level mappings       *)
(*   (threat-detection-v2.js, part_005, data-sources-v2.js) and the alert  *)
(*   condition of analyzeFlight, applied to a score drawn from the whole   *)
(*   scale instead of the score classifyThreat sums up for a flight        *)

\* the scores handed to the mappings: 0 .. MaxScore points
MaxScore == 100

\* scoring cycles in one run
MaxCycles == 2

\* the largest sum calculateThreatLevel(flight) of the v2 manager can
\* reach: 3 + 2 + 1 + 1
MaxManagerScore == 7

\* the largest score of the v1 analyzer, Math.min(threatScore, 1.0), in
\* thousandths
MaxAnalyzerScore == 1000

\* the position of a v1 level in the order NONE < LOW < ... < CRITICAL
LevelRankV1(level) ==
    CASE level = "NONE"     -> 0
      [] level = "LOW"      -> 1
      [] level = "MEDIUM"   -> 2
      [] level = "HIGH"     -> 3
      [] level = "CRITICAL" -> 4

\* what one cycle stores for a flight whose classification score is
\* score: analyzeFlight stores classification.level, escalated when
\* stealth is detected, and emits an alert carrying the stored level when
\* it is significant; the v1 system maps score / 100 and the v2 manager
\* maps its own sum
scoringCycle(flight, score) ==
    LET level   == calculateThreatLevel(score)
        stored  == IF detectStealth(flight)
                   THEN escalateThreatLevel(level) ELSE level
        v1Score == Min2(score * 10, MaxAnalyzerScore)
        dsScore == Min2(score, MaxManagerScore)
    IN  [ score   |-> score,
          level   |-> stored,
          alert   |-> IF isSignificantThreat(stored) THEN stored
                      ELSE "none",
          v1Score |-> v1Score,
          v1Level |-> calculateThreatLevelV1(v1Score),
          dsScore |-> dsScore,
          dsLevel |-> threatLevelOfScore(dsScore) ]

\* no cycle has run
NoCycle ==
    [ score |-> -1, level |-> "none", alert |-> "none", v1Score |-> -1,
      v1Level |-> "none", dsScore |-> -1, dsLevel |-> "none" ]

InitLv ==
    /\ lvCycles = 0
    /\ lvPrev = NoCycle
    /\ lvCur = NoCycle

\* one scoring cycle on the flight
ScoringCycle ==
    \E flight \in {SilentMilitary, ReportingMilitary},
       score \in 0..MaxScore :
      /\ lvCycles < MaxCycles
      /\ lvCycles' = lvCycles + 1
      /\ lvPrev' = lvCur
      /\ lvCur' = scoringCycle(flight, score)
      /\ UNCHANGED <<now, othersLv>>

NextLv == ScoringCycle

----------------------------------------------------------------------------
(*                           Specifications                                *)

Init ==
    /\ InitTr /\ InitDs /\ InitPq /\ InitV1 /\ InitTh /\ InitLv /\ InitMg
    /\ InitTm

\* the tracker under every interleaving of its operations
SpecTr == Init /\ [][NextTr]_vars

\* one aircraft reported again and again, to fill a history array
SpecHist == Init /\ [][NextHist]_vars

\* the tracker and a caller that writes to the results of its reads
SpecSnap == Init /\ [][NextSnap]_vars

\* the v2 data source manager with its handlers, timers and polls
SpecDs == Init /\ [][NextDs]_vars

\* the v1 data source manager: status probes, checkboxes and polls
SpecV1 == Init /\ [][NextV1]_vars

\* the v1 manager with the outcomes of its HTTP requests
SpecRq == Init /\ [][NextRq]_vars

\* the processing pipeline of the v2 manager and the OpenSky normalizer
SpecPq == Init /\ [][NextPq]_vars

\* the threat scoring of both systems, run again and again while hours
\* pass
SpecTh == Init /\ [][NextTh]_vars

\* scoring cycles with the score drawn from the whole scale
SpecLv == Init /\ [][NextLv]_vars

\* the v2 manager with two sources, its timers and its queue
SpecMg == Init /\ [][NextMg]_vars

\* the tracker under every call, shutdown included
SpecTk == Init /\ [][NextTk]_vars

\* the events of the v2 manager and of the threat system and their
\* listeners
SpecEm == Init /\ [][NextEm]_vars

\* the timers of the tracker and of the threat system
SpecTm == Init /\ [][NextTm]_vars

\* the polling intervals of the v2 and the v1 manager
SpecIv == Init /\ [][NextIv]_vars

\* the queue of the v2 manager under the calls of the application
SpecMq == Init /\ [][NextMq]_vars

\* the same with the continuations of promises always run: a suspended
\* processQueue call is resumed by the microtask queue of the event loop
SpecMqFair == SpecMq /\ WF_vars(ProcessQueueResumes)

----------------------------------------------------------------------------
(*                 Properties of the DataSourceManager v2                  *)

C2_SuccessResetsErrorCounter ==
    [][\A s \in SourceNames :
         (dsLast'.op = "processSourceData" /\ dsLast'.src = s) =>
           sources'[s].errorCount = 0]_vars

\* C3 (as stated): the first successful poll of a source that is being
\* polled and whose status has become offline sets its status to online.
C3_SuccessRestoresOnline ==
    [][\A s \in SourceNames :
         (/\ dsLast'.op = "processSourceData"
          /\ dsLast'.src = s
          /\ sources[s].isActive
          /\ connectionStatus[s] = "offline") =>
           connectionStatus'[s] = "online"]_vars

\* the flights of the dataUpdated events emitted by the last handler
EmittedFlights ==
    UNION { {dataUpdated[e].flights[i] :
               i \in 1..Len(dataUpdated[e].flights)} :
            e \in 1..Len(dataUpdated) }

\* the flights of the last parseOpenSkyData
OpenSkyFlights == {openSkyData[i] : i \in 1..Len(openSkyData)}

\* a flight of an event is the Detection MIL1234 at 25000 ft and 450 kt
IsMil1234(f) ==
    /\ f.callsign = <<"M","I","L","1","2","3","4">>
    /\ f.altitude = 25000
    /\ f.speed = 450

IsDark(f) == f.callsign = << >> /\ f.icao24 = ""

\* a flight of parseOpenSkyData had neither callsign nor identifier: the
\* parser has written N/A and a generated identifier
IsDarkOpenSky(f) ==
    /\ f.callsign = <<"N","/","A">>
    /\ f.id \in {"OS_" \o rnd : rnd \in RandomSuffixes}

\* the flight lies in the low and slow envelope
LowAndSlow(f) ==
    /\ f.altitude > 0 /\ f.altitude < 5000
    /\ f.speed > 0 /\ f.speed < 100

\* C18 (as stated): every Detection with neither callsign nor identifier
\* is classified unknown, whatever its altitude and speed.
C18_DarkIsUnknown ==
    /\ \A f \in EmittedFlights : IsDark(f) => f.type = "unknown"
    /\ \A f \in OpenSkyFlights : IsDarkOpenSky(f) => f.type = "unknown"

\* C18 (what the code does): a Detection with neither callsign nor
\* identifier is classified uav by the v2 manager when its altitude is
\* below 5000 and its speed below 100 (both present), military by the
\* OpenSky normalizer when its country is US, RU, CN or IR, and unknown
\* otherwise.
C18_DarkIsUnknownOutsideEnvelope ==
    /\ \A f \in EmittedFlights :
         IsDark(f) =>
           f.type = IF LowAndSlow(f) THEN "uav" ELSE "unknown"
    /\ \A f \in OpenSkyFlights :
         IsDarkOpenSky(f) =>
           f.type = IF f.country \in {"US", "RU", "CN", "IR"}
                    THEN "military" ELSE "unknown"

\* C18: an event carries a Detection without callsign and identifier
\* that is low and slow and one that is high and fast, and the OpenSky
\* normalizer has parsed one
C18_Witness ==
    /\ \E f \in EmittedFlights : IsDark(f) /\ LowAndSlow(f)
    /\ \E f \in EmittedFlights : IsDark(f) /\ ~LowAndSlow(f)
    /\ \E f \in OpenSkyFlights : IsDarkOpenSky(f)

\* C19: no flight of a dataUpdated event and no flight the OpenSky
\* normalizer returns lacks its latitude or its longitude.
C19_EveryFlightHasPosition ==
    /\ \A f \in EmittedFlights : f.lat # 0 /\ f.lon # 0
    /\ \A f \in OpenSkyFlights : f.latitude # 0 /\ f.longitude # 0

\* C20: when a response that is an object has been handed to
\* processSourceData, one dataUpdated event has been emitted for it, and
\* its flights are the transformed records that pass validation, in
\* their order: a record that fails is dropped alone.
C20_OnlyTheFailingRecordIsDropped ==
    (pqLast.op = "processSourceData" /\ pqLast.rawData.isObject) =>
      /\ Len(dataUpdated) = 1
      /\ LET raw == pqLast.rawData.flights
             ev  == dataUpdated[1]
         IN  /\ ev.source = pqLast.src
             /\ ev.flights =
                  LET kept == SelectSeq(raw, isValidRecord)
                  IN  [i \in 1..Len(kept) |->
                         transformFlight(kept[i], pqLast.src,
                                         ev.timestamp)]
             /\ ev.metadata.count = Len(ev.flights)

\* C20: a response of one record that fails validation and one valid
\* record has been processed, and its event carries the valid one
C20_Witness ==
    /\ pqLast.op = "processSourceData"
    /\ pqLast.rawData.flights = <<EmptyRecord, MilRecord>>
    /\ Len(dataUpdated) = 1
    /\ Len(dataUpdated[1].flights) = 1
    /\ dataUpdated[1].flights[1].icao24 = MilRecord.icao24

----------------------------------------------------------------------------
(*                 Properties of the DataSourceManager v1                  *)

\* C4 (as stated): a poll that executes no request (a skipped poll)
\* neither increments the source's error counter nor schedules a retry.
C4_SkippedPollIsSilent ==
    [][\A s \in SourceKeys :
         (/\ v1Last'.op = "updateSourceData"
          /\ v1Last'.src = s
          /\ requestsSent'[s] = requestsSent[s]) =>
           /\ sourcesV1'[s].errorCount = sourcesV1[s].errorCount
           /\ retryPolls'[s] = retryPolls[s]]_vars

----------------------------------------------------------------------------
(*               Properties of the ThreatDetectionSystem v2                *)

\* C10 (as stated): analysing a flight that has been analysed before, the
\* flight being unchanged, gives the same score, level, confidence,
\* patterns and anomalies as the analysis before, whatever the clock and
\* the random numbers drawn.
C10_ReanalysisIsIdentical ==
    [][/\ \A id \in DOMAIN threats :
            (/\ thLast'.op = "analyzeFlight"
             /\ thLast'.flightId = id
             /\ snapshots'[id] = snapshots[id]) =>
              /\ classified'[id].score = classified[id].score
              /\ classified'[id].level = classified[id].level
              /\ classified'[id].confidence = classified[id].confidence
              /\ threats'[id].patterns = threats[id].patterns
              /\ threats'[id].anomalies = threats[id].anomalies
       /\ \A id \in DOMAIN aiScores :
            (thLast'.op = "aiAnalyzeFlight" /\ thLast'.flightId = id) =>
              aiScores'[id] = aiScores[id]]_vars

\* the clock t lies in the suspicious hours, 23:00 to 05:59
SuspiciousHour(t) == getHours(t) \in {23, 0, 1, 2, 3, 4, 5}

\* C10 (what the scoring does): analysing an unchanged flight again, the
\* v2 system finds the same patterns and anomalies, and the same score,
\* level, confidence and details whenever both analyses fall on the same
\* side of the suspicious hours (23:00 to 05:59); the stored analyses
\* differ in their timestamps.  The v1 analyzer answers with a score less
\* than 0.1 away from its previous answer.
C10_ReanalysisSameWithinTimeClass ==
    [][/\ \A id \in DOMAIN threats :
            (/\ thLast'.op = "analyzeFlight"
             /\ thLast'.flightId = id
             /\ snapshots'[id] = snapshots[id]) =>
              /\ threats'[id].patterns = threats[id].patterns
              /\ threats'[id].anomalies = threats[id].anomalies
              /\ SuspiciousHour(threats[id].timestamp)
                   = SuspiciousHour(threats'[id].timestamp) =>
                    /\ classified'[id] = classified[id]
                    /\ [threats'[id] EXCEPT !.timestamp = 0]
                         = [threats[id] EXCEPT !.timestamp = 0]
       /\ \A id \in DOMAIN aiScores :
            (thLast'.op = "aiAnalyzeFlight" /\ thLast'.flightId = id) =>
              Abs(aiScores'[id] - aiScores[id]) < 100]_vars

\* C10: a flight scored medium has just been analysed again, an hour
\* after its previous analysis and in the same time class
C10_Witness ==
    /\ thLast.op = "analyzeFlight"
    /\ thLast.prev >= 0
    /\ thLast.prev < thNow
    /\ SuspiciousHour(thLast.prev) = SuspiciousHour(thNow)
    /\ threats[thLast.flightId].threatLevel = "medium"
    /\ thLast.same
    /\ Len(threatHistory) >= 2
    /\ DOMAIN aiScores # {}

\* the position of a level in the order low < medium < high < critical
LevelRank(level) ==
    CASE level = "low"      -> 0
      [] level = "medium"   -> 1
      [] level = "high"     -> 2
      [] level = "critical" -> 3

C14_LevelMonotonicInScore ==
    lvCycles >= 2 =>
      /\ lvPrev.score < lvCur.score =>
           LevelRank(lvPrev.level) <= LevelRank(lvCur.level)
      /\ lvPrev.score > lvCur.score =>
           LevelRank(lvPrev.level) >= LevelRank(lvCur.level)
      /\ lvPrev.v1Score < lvCur.v1Score =>
           LevelRankV1(lvPrev.v1Level) <= LevelRankV1(lvCur.v1Level)
      /\ lvPrev.v1Score > lvCur.v1Score =>
           LevelRankV1(lvPrev.v1Level) >= LevelRankV1(lvCur.v1Level)
      /\ lvPrev.dsScore < lvCur.dsScore =>
           LevelRank(lvPrev.dsLevel) <= LevelRank(lvCur.dsLevel)
      /\ lvPrev.dsScore > lvCur.dsScore =>
           LevelRank(lvPrev.dsLevel) >= LevelRank(lvCur.dsLevel)

\* C14: two cycles whose scores lie at the two ends of the scale, with
\* the lowest and the highest level of every mapping
C14_Witness ==
    /\ lvCycles >= 2
    /\ lvPrev.score < lvCur.score
    /\ lvPrev.level = "low" /\ lvCur.level = "critical"
    /\ lvPrev.v1Level = "NONE" /\ lvCur.v1Level = "CRITICAL"
    /\ lvPrev.dsLevel = "low" /\ lvCur.dsLevel = "critical"

MaxSummedScore == 33

C11_ReconfirmedLevelEmitsNoAlert ==
    [][\A id \in DOMAIN threats :
          (/\ thLast'.op = "analyzeFlight"
           /\ thLast'.flightId = id
           /\ threats'[id].threatLevel = threats[id].threatLevel) =>
            threatHistory' = threatHistory]_vars

\* C12: when an analyzeFlight pass lowers the stored level of a flight it
\* emits no alert, and a pass over a flight analysed before emits an
\* alert only if the new level is strictly higher than the stored one.
C12_AlertOnlyOnStrictRise ==
    [][\A id \in DOMAIN threats :
          (thLast'.op = "analyzeFlight" /\ thLast'.flightId = id) =>
            /\ LevelRank(threats'[id].threatLevel)
                  < LevelRank(threats[id].threatLevel) =>
                 /\ threats'[id].threatLevel = classified'[id].level
                 /\ threatHistory' = threatHistory
            /\ threatHistory' # threatHistory =>
                 LevelRank(threats'[id].threatLevel)
                   > LevelRank(threats[id].threatLevel)]_vars

\* the half of C12 that holds: a pass that lowers the stored level emits
\* no alert
C12_FallIsSilent ==
    [][\A id \in DOMAIN threats :
          (/\ thLast'.op = "analyzeFlight"
           /\ thLast'.flightId = id
           /\ LevelRank(threats'[id].threatLevel)
                 < LevelRank(threats[id].threatLevel)) =>
            threatHistory' = threatHistory]_vars

\* a pass has just lowered the stored level of SIL001 from medium to low
C12_FallReached ==
    /\ thLast.op = "analyzeFlight"
    /\ thLast.flightId = "SIL001"
    /\ thLast.prev >= 0
    /\ ~thLast.same
    /\ threats["SIL001"].threatLevel = "low"
    /\ snapshots["SIL001"] = ReportingMilitary

----------------------------------------------------------------------------
(*                     Properties of the FlightTracker                     *)

\* C5: as long as no flight has been removed, the number of tracked
\* flights equals the number of distinct (non-empty) identifiers that
\* addFlight has been called with.
C5_TrackCountEqualsDistinctIds ==
    ~evicted => Cardinality(DOMAIN flights) = Cardinality(seenIds)

\* C5 witness: three records of one provider, two distinct identifiers,
\* two tracks
C5_Witness ==
    /\ ~evicted
    /\ addCount >= 3
    /\ Cardinality(seenIds) = 2
    /\ Cardinality(DOMAIN flights) = 2
    /\ \A id \in DOMAIN flights : contributors[id] = {"flightradar24"}

\* two tracked flights that two providers reported within 15 s of each
\* other and within 50 millidegrees of each other
Correlated(a, b) ==
    /\ a # b
    /\ flights[a].source # flights[b].source
    /\ Abs(flights[a].lastUpdate - flights[b].lastUpdate) <= 15 * 1000
    /\ Abs(flights[a].latitude - flights[b].latitude) <= 50
    /\ Abs(flights[a].longitude - flights[b].longitude) <= 50

C8_StaleGoneAfterSweep ==
    [][ trLast'.op = "interval" =>
          \A id \in DOMAIN flights :
            now - flights[id].lastUpdate > StaleAfter =>
              /\ \A f \in getFlights' : f.id # id
              /\ id \notin DOMAIN flightHistory'
              /\ id \notin threatFlights' ]_vars

\* C8 witness: a pass of the interval that removed a flight
C8_Witness ==
    /\ isTracking
    /\ trLast.op = "interval"
    /\ trLast.removed # {}

\* C9 as stated: a history never holds more than 100 entries.
C9_HistoryAtMost100 ==
    \A id \in DOMAIN flightHistory : Len(flightHistory[id]) <= 100

\* C9 amended: a history never holds more than maxHistoryLength (1000)
\* entries; addFlight appends the new position at the end, and when the
\* array was full it drops exactly the first entry and keeps the others in
\* order.
C9_HistoryCappedOldestFirst ==
    [][ \A id \in DOMAIN flightHistory' :
          LET h2 == flightHistory'[id] IN
          /\ Len(h2) <= maxHistoryLength
          /\ (trLast'.op = "addFlight" /\ trLast'.fd.id = id
                /\ id \in DOMAIN flightHistory) =>
               LET h1 == flightHistory[id] IN
               /\ h2[Len(h2)] = Position(trLast'.fd, now')
               /\ IF Len(h1) < maxHistoryLength
                  THEN Len(h2) = Len(h1) + 1
                       /\ SubSeq(h2, 1, Len(h1)) = h1
                  ELSE Len(h2) = maxHistoryLength
                       /\ SubSeq(h2, 1, Len(h2) - 1) = Tail(h1) ]_vars

\* C9 witness: a full history whose first entries have been dropped
C9_Witness ==
    \E id \in DOMAIN flightHistory :
        /\ Len(flightHistory[id]) = maxHistoryLength
        /\ flightHistory[id][1].timestamp > 1
        /\ flightHistory[id][maxHistoryLength].timestamp = now

----------------------------------------------------------------------------
(*        Properties of the v2 manager's queue, timers and sources         *)

\* the numbers of the items in a sequence of items
SeqsOf(items) == [i \in 1..Len(items) |-> items[i].seq]

\* a sequence of numbers in strictly increasing order
Increasing(q) == \A i, j \in 1..Len(q) : i < j => q[i] < q[j]

\* the numbers in a sequence
Range(q) == {q[i] : i \in 1..Len(q)}

\* C21: the ingestion queue is bounded by a fixed capacity and an arrival at
\* a full queue drops the oldest pending item: of the MaxArrivals items
\* handed over while the first one is being processed, the later ones are
\* never all pending at once.
C21_QueueNeverHoldsEveryPendingArrival ==
    Len(pipe.queue) < MaxArrivals - 1

\* C22: a handleSourceError call leaves the queue and every source but one
\* as they were (entry, status, requests, retry and restart timers,
\* enabling), and an initialize() in which a handler fails registers every
\* other source as an initialize() without a failure does.
Untouched(o) ==
    /\ mgr'.sources[o] = mgr.sources[o]
    /\ mgr'.connectionStatus[o] = mgr.connectionStatus[o]
    /\ mgr'.inflight[o] = mgr.inflight[o]
    /\ mgr'.retryTimers[o] = mgr.retryTimers[o]
    /\ mgr'.restartTimers[o] = mgr.restartTimers[o]
    /\ (o \in mgr'.registered) = (o \in mgr.registered)
    /\ (o \in mgr'.activeSources) = (o \in mgr.activeSources)

ErrorStep == mgr'.failures = mgr.failures + 1

InitializeStep == ~mgr.isInitialized /\ mgr'.isInitialized

InitializedAsUsual(o) ==
    /\ o \in mgr'.registered
    /\ mgr'.sources[o] = BlankSource
    /\ mgr'.connectionStatus[o] = "initializing"
    /\ mgr'.inflight[o] = mgr.inflight[o]
    /\ mgr'.retryTimers[o] = mgr.retryTimers[o]
    /\ mgr'.restartTimers[o] = mgr.restartTimers[o]
    /\ (o \in mgr'.activeSources) = (o \in mgr.activeSources)

C22_ErrorStaysWithItsSource ==
    [][ /\ ErrorStep =>
            /\ pipe' = pipe
            /\ mgr'.isRunning = mgr.isRunning
            /\ \E s \in MgrSources :
                 \A o \in MgrSources \ {s} : Untouched(o)
        /\ InitializeStep =>
            /\ pipe' = pipe
            /\ \A o \in MgrSources :
                 \/ InitializedAsUsual(o)
                 \/ /\ o \notin mgr'.registered
                    /\ mgr'.connectionStatus[o] = "offline" ]_vars

\* an error of one source after another source has been started and while
\* its data is being processed
C22_Witness ==
    \E s, o \in MgrSources :
      /\ s # o
      /\ mgr.sources[s].errorCount > 0
      /\ mgr.connectionStatus[s] = "error"
      /\ mgr.sources[o].errorCount = 0
      /\ mgr.sources[o].isActive
      /\ mgr.connectionStatus[o] = "online"
      /\ Len(pipe.loops) > 0

\* an initialize() in which the handler of one source failed
C22_FailedInitialization ==
    mgr.isInitialized /\ mgr.registered # MgrSources /\ ~mgr.isShutdown

\* C24: after shutdown() no timer of the manager fires: no polling
\* interval, request timeout, retry or restart timeout, monitoring interval
\* or queue interval.
C24_NoTimerFiresAfterShutdown == mgr.lateTimer = ""

\* the part of C24 the code keeps: shutdown() stops every handler, so no
\* polling interval outlives it
C24_NoPollingAfterShutdown ==
    mgr.isShutdown => \A s \in MgrSources : ~mgr.sources[s].isActive

\* C29: at most one processQueue call is in progress at any time, and the
\* items are shifted, and their dataUpdated events emitted, in the order in
\* which they were pushed.
C29_OneLoopInArrivalOrder ==
    /\ Len(pipe.loops) <= 1
    /\ pipe.isProcessing = (Len(pipe.loops) = 1)
    /\ Increasing(pipe.dequeued)
    /\ Increasing(SeqsOf(pipe.queue))
    /\ Increasing(SeqsOf(pipe.emitted))
    /\ \A i \in 1..Len(pipe.queue) :
         \A n \in Range(pipe.dequeued) : n < pipe.queue[i].seq

\* the event of one source is out, a second item is being processed and
\* an item of another source is waiting behind it
C29_Witness ==
    /\ Len(pipe.emitted) >= 1
    /\ Len(pipe.queue) > 0
    /\ pipe.emitted[1].source # pipe.queue[1].sourceName
    /\ pipe.isProcessing

\* an item is pending: in the queue or held by a suspended call
Pending(n) ==
    \/ \E i \in 1..Len(pipe.queue) : pipe.queue[i].seq = n
    \/ \E k \in 1..Len(pipe.loops) : pipe.loops[k].seq = n

\* an item is done with: processed, dropped with its error logged, or
\* removed from the queue by shutdown()
Settled(n) ==
    n \in Range(pipe.processed) \cup Range(pipe.failed) \cup pipe.cleared

\* no item is shifted twice, none has two outcomes, and an item that
\* arrived is pending or settled
ExactlyOnce ==
    /\ \A i, j \in 1..Len(pipe.dequeued) :
         i # j => pipe.dequeued[i] # pipe.dequeued[j]
    /\ \A i, j \in 1..Len(pipe.processed) :
         i # j => pipe.processed[i] # pipe.processed[j]
    /\ \A i, j \in 1..Len(pipe.failed) :
         i # j => pipe.failed[i] # pipe.failed[j]
    /\ Range(pipe.processed) \cap Range(pipe.failed) = {}
    /\ Range(pipe.dequeued) \cap pipe.cleared = {}
    /\ \A n \in 1..pipe.arrivals : Pending(n) # Settled(n)

\* nothing is pending and no processQueue call is in progress
Quiescent ==
    /\ \A n \in 1..pipe.arrivals : Settled(n)
    /\ ~pipe.isProcessing

\* C30: every item put on the queue is eventually shifted exactly once and
\* processed or dropped with its error logged, unless shutdown() removes it
\* from the queue first; isProcessing never stays true.  An item that
\* arrived is pending or settled, never both and never twice, and again
\* and again every item that arrived is settled and isProcessing is false.
C30_EveryItemIsSettledOnce ==
    /\ []ExactlyOnce
    /\ []<>Quiescent

\* an item failed, a listener threw, and the queue is at rest again
C30_Witness ==
    /\ Len(pipe.failed) > 0
    /\ \E i \in 1..Len(pipe.emitted) : pipe.emitted[i].threw
    /\ ~pipe.isProcessing
    /\ Len(pipe.queue) = 0

----------------------------------------------------------------------------
(*             Properties of the v1 manager's HTTP requests                *)

\* the ways a request fails other than by its timeout
FailedOutcomes == {"httpError", "networkError"}

----------------------------------------------------------------------------
(*          Properties of the tracker's reads and of its history           *)

\* C25: a caller that writes to what getFlights, getFlightById or
\* getFlightHistory returned leaves the store as it was: the flights and
\* the histories are the same before and after the caller's write.
C25_CallerCannotChangeStore ==
    [][ trLast'.op \in CallerOps =>
          /\ flights' = flights
          /\ flightHistory' = flightHistory ]_vars

\* the part of C25 the code keeps: the array getFlights returns is a new
\* one, and so is the empty array getFlightHistory returns for an id
\* without history
C25_ArraysOfTheCallerAreItsOwn ==
    [][ trLast'.op = "writeFlightsArray" =>
          /\ flights' = flights
          /\ flightHistory' = flightHistory ]_vars

\* C27: an addFlight call with a position leaves a track at that position
\* in the store, whether or not the flightData carries an id.
C27_EveryPositionedDetectionIsTracked ==
    [][ ( /\ trLast'.op = "addFlight"
          /\ trLast'.fd.latitude # 0
          /\ trLast'.fd.longitude # 0 )
        => \E id \in DOMAIN flights' :
             /\ flights'[id].latitude = trLast'.fd.latitude
             /\ flights'[id].longitude = trLast'.fd.longitude
             /\ flights'[id].lastUpdate = now' ]_vars

\* the part of C27 the code keeps: a flightData with an id is tracked
\* under that id
C27_DetectionWithIdIsTracked ==
    [][ (trLast'.op = "addFlight" /\ trLast'.fd.id # "")
        => /\ trLast'.fd.id \in DOMAIN flights'
           /\ flights'[trLast'.fd.id].latitude = trLast'.fd.latitude
           /\ flights'[trLast'.fd.id].lastUpdate = now' ]_vars

\* an addFlight call that updates a tracked flight
UpdateStep(id) ==
    /\ trLast'.op = "addFlight"
    /\ trLast'.fd.id = id
    /\ id \in DOMAIN flights
    /\ id \in DOMAIN flights'
    /\ id \in DOMAIN flightHistory
    /\ id \in DOMAIN flightHistory'

\* the last element of a non-empty array
LastOf(q) == q[Len(q)]

\* C28: on an update of a tracked flight the new flightData becomes the
\* flight's data, and the entry appended to its history is the position
\* the flight had before the update, with the time of that earlier
\* report.
C28_AppendedEntryIsThePreviousLatest ==
    [][ \A id \in DOMAIN flights :
          UpdateStep(id) =>
            /\ flights'[id].latitude = trLast'.fd.latitude
            /\ flights'[id].longitude = trLast'.fd.longitude
            /\ Len(flightHistory'[id]) > 0
            /\ LastOf(flightHistory'[id])
                 = Position(flights[id], flights[id].lastUpdate) ]_vars

\* what the code does instead: the appended entry is the position of the
\* new flightData, stamped with the time of the update
C28_AppendedEntryIsTheNewLatest ==
    [][ \A id \in DOMAIN flights :
          UpdateStep(id) =>
            /\ Len(flightHistory'[id]) > 0
            /\ LastOf(flightHistory'[id]) = Position(trLast'.fd, now')
            /\ LastOf(flightHistory'[id]).latitude = flights'[id].latitude
            /\ LastOf(flightHistory'[id]).timestamp
                 = flights'[id].lastUpdate ]_vars

----------------------------------------------------------------------------
(*                  Properties of the threat thresholds                    *)

\* C26: with the thresholds low 10, medium 30, high 60, critical 90 a
\* score of 90 or more is stored as critical, a score from 60 to 89 as
\* high, a score from 30 to 59 as medium and a score below 30 as low.
C26_LevelsStartAt30And60And90 ==
    lvCycles >= 1 =>
      lvCur.level = IF lvCur.score >= 90 THEN "critical"
                    ELSE IF lvCur.score >= 60 THEN "high"
                    ELSE IF lvCur.score >= 30 THEN "medium"
                    ELSE "low"

\* the scores on the two sides of the highest breakpoint, in two cycles
C26_Witness ==
    /\ lvCycles >= 2
    /\ lvPrev.score = 89 /\ lvPrev.level = "high"
    /\ lvCur.score = 90 /\ lvCur.level = "critical"

----------------------------------------------------------------------------
(*            Properties of the sources' activity and polling              *)

\* a step makes source s active
BecomesActive(s) ==
    /\ ~mgr.sources[s].isActive
    /\ mgr'.sources[s].isActive

\* C31: a source becomes active only when, after the step, it is in
\* activeSources and data collection is running: a retry timer that is
\* still pending when the source is toggled off or collection is stopped
\* does not make the source active again.
C31_BecomesActiveOnlyWhenEnabledAndRunning ==
    [][ \A s \in MgrSources :
          BecomesActive(s) =>
            /\ s \in mgr'.activeSources
            /\ mgr'.isRunning ]_vars

\* the state form of C31: an active source is enabled and collection runs
C31_ActiveSourceIsEnabledAndRunning ==
    \A s \in MgrSources :
      mgr.sources[s].isActive =>
        /\ s \in mgr.activeSources
        /\ mgr.isRunning

\* the source of the item a step hands to processSourceData
ArrivalOf(s) ==
    /\ pipe'.arrivals = pipe.arrivals + 1
    /\ \E x \in Range(pipe'.queue) \cup Range(pipe'.loops) :
         /\ x.seq = pipe'.arrivals
         /\ x.sourceName = s

\* C32: data is put on the processing queue only for a source that is
\* active: once stopSource has returned for a source, a request of that
\* source that was in flight at the stop adds nothing to the queue.
C32_NoArrivalOfStoppedSource ==
    [][ \A s \in MgrSources :
          ArrivalOf(s) => mgr.sources[s].isActive ]_vars

\* C33: a handler of the v2 manager has at most one live polling interval,
\* and it has one exactly while its source is active; in the v1 manager
\* the sources with a polling interval are the sources in activeSources.
C33_OnePollingIntervalPerSource ==
    /\ \A s \in MgrSources :
         /\ mgr.intervals[s] <= 1
         /\ mgr.intervals[s] = (IF mgr.sources[s].isActive THEN 1 ELSE 0)
    /\ updateIntervals = activeSourcesV1

\* a source of the v2 manager that was started, stopped by a retry and
\* started again by the retry's timeout has one interval
C33_Witness ==
    \E s \in MgrSources :
      /\ mgr.sources[s].isActive
      /\ mgr.sources[s].retryAttempts > 0
      /\ mgr.restartTimers[s] = 0
      /\ mgr.retryTimers[s] = {}
      /\ mgr.intervals[s] = 1
      /\ mgr.inflight[s] >= 2

\* a source of the v1 manager that is activated has its interval while
\* the other source, once active, has none
C33_ActivatedInV1 ==
    /\ v1Last.op = "activateSource"
    /\ v1Last.src \in updateIntervals
    /\ updateIntervals = {v1Last.src}
    /\ \E o \in SourceKeys \ {v1Last.src} : sourcesV1[o].status = "online"

----------------------------------------------------------------------------
(*                Properties of the tracker's collections                  *)

\* C34: the ids with a history are the tracked ids, and every id in
\* threatFlights is a tracked id, whatever addFlight, removeFlight, the
\* sweeps, the pattern analysis, detectThreats and shutdown have done.
C34_HistoriesAndThreatsFollowFlights ==
    /\ DOMAIN flightHistory = DOMAIN flights
    /\ threatFlights \subseteq DOMAIN flights

\* a flight was removed by a call or a sweep while another stays tracked
\* as a threat
C34_Witness ==
    /\ trLast.op \in {"removeFlight", "interval"}
    /\ trLast.removed # {}
    /\ threatFlights # {}
    /\ addCount = MaxAdds

\* a shutdown has removed the flights of a tracker
C34_AfterShutdown ==
    /\ trLast.op = "shutdown"
    /\ Cardinality(trLast.removed) >= 2
    /\ flights = << >>

\* the track of id was updated within the staleness window and the step
\* removes it
FreshTrackRemoved(id) ==
    /\ id \in DOMAIN flights
    /\ now - flights[id].lastUpdate <= StaleAfter
    /\ id \notin DOMAIN flights'

\* C35: a track whose last update is at most five minutes old is removed
\* by no sweep and by no addFlight call: the step that removes it is a
\* removeFlight call or a shutdown.
C35_FreshTrackLeavesOnlyOnRequest ==
    [][ \A id \in DOMAIN flights :
          FreshTrackRemoved(id) =>
            trLast'.op \in {"removeFlight", "shutdown"} ]_vars

\* a sweep has removed a stale track and kept one whose last update is
\* exactly five minutes old
C35_Witness ==
    /\ trLast.op = "interval"
    /\ trLast.removed # {}
    /\ \E id \in DOMAIN flights : now - flights[id].lastUpdate = StaleAfter

----------------------------------------------------------------------------
(*                  Properties of the periodic passes                      *)

\* C38: the tracker and the threat system each have one interval alive
\* while they are started and none while they are stopped, however often
\* start and stop are called, and a periodic pass runs only in a component
\* that is started.
C38_OneIntervalWhileStarted ==
    /\ trTimer.intervals = (IF isTracking THEN 1 ELSE 0)
    /\ tds.intervals = (IF tds.isMonitoring THEN 1 ELSE 0)
    /\ trLast.op = "interval" => isTracking
    /\ tds.last # "interval after stop"

\* both components were started a second time while running
C38_Witness ==
    /\ trLast.op = "startTracking again"
    /\ trTimer.intervals = 1
    /\ tds.last = "startMonitoring again"
    /\ tds.intervals = 1
    /\ tds.passes >= 1

\* both components were stopped a second time after their passes had run
C38_StoppedTwice ==
    /\ trLast.op = "stopTracking again"
    /\ trTimer.intervals = 0
    /\ tds.last = "stopMonitoring again"
    /\ tds.passes = MaxPasses

----------------------------------------------------------------------------
(*                 Properties of the events' listeners                     *)

\* C36: every listener registered for an event when it is emitted is
\* called with it, whether or not a listener before it throws, in the
\* manager and in the threat system alike; the item whose event a listener
\* threw on counts as processed, and the processQueue call that emitted
\* it goes on while an item is pending.
C36_ThrowingListenerStopsNothing ==
    /\ \A i \in 1..Len(pipe.emitted) :
         /\ pipe.emitted[i].called = 1..pipe.emitted[i].registered
         /\ pipe.emitted[i].seq \in Range(pipe.processed)
         /\ pipe.emitted[i].seq \notin Range(pipe.failed)
    /\ tds.delivered.called = 1..tds.delivered.registered
    /\ \A n \in 1..pipe.arrivals :
         Pending(n) => (pipe.isProcessing /\ Len(pipe.loops) = 1)

\* the first of two listeners threw on the event of an item, and the event
\* of the item after it is out as well
C36_Witness ==
    /\ Len(pipe.listeners) = 2
    /\ pipe.listeners[1] = "throws"
    /\ Len(pipe.emitted) >= 2
    /\ pipe.emitted[1].registered = 2
    /\ pipe.emitted[1].threw
    /\ pipe.emitted[2].called = {1, 2}

\* the first of two threatDetected listeners throws and the threat of a
\* flight was handed to both
C36_ThreatDelivered ==
    /\ Len(tds.listeners) = 2
    /\ tds.listeners[1] = "throws"
    /\ tds.delivered.flightId # ""
    /\ tds.delivered.called = {1, 2}

----------------------------------------------------------------------------
(*              Properties of activation in the v1 manager                 *)

\* the step is an activateSource(s) call
ActivateCall(s) ==
    /\ v1Last'.op = "activateSource"
    /\ v1Last'.src = s

\* C37: an activateSource call for a source that is not online or that is
\* active already leaves the sources, activeSources and the polling
\* intervals as they are and dispatches no event; and a source leaves
\* activeSources by a deactivateSource call for it and in no other way,
\* whatever its status becomes.
C37_ActivationNeedsOnlineAndStaysUntilDeactivated ==
    [][ \A s \in SourceKeys :
          /\ (/\ ActivateCall(s)
              /\ (sourcesV1[s].status # "online" \/ s \in activeSourcesV1))
               => /\ activeSourcesV1' = activeSourcesV1
                  /\ updateIntervals' = updateIntervals
                  /\ sourcesV1' = sourcesV1
                  /\ v1Last'.event = ""
          /\ (s \in activeSourcesV1 /\ s \notin activeSourcesV1')
               => /\ v1Last'.op = "deactivateSource"
                  /\ v1Last'.src = s ]_vars

\* a source that went offline while active is still active, and the
\* activateSource call for it has done nothing
C37_Witness ==
    \E s \in SourceKeys :
      /\ v1Last.op = "activateSource"
      /\ v1Last.src = s
      /\ v1Last.event = ""
      /\ s \in activeSourcesV1
      /\ s \in updateIntervals
      /\ sourcesV1[s].status = "offline"

\* an activateSource call for a source that is offline and not active has
\* done nothing
C37_RefusedOffline ==
    \E s \in SourceKeys :
      /\ v1Last.op = "activateSource"
      /\ v1Last.src = s
      /\ v1Last.event = ""
      /\ s \notin activeSourcesV1
      /\ now > 0

====
